---- MODULE Spec2Model ----
(***************************************************************************)
(* A model of the deal-feed functions of bifccoupons (netlify/functions):  *)
(* the coupons, bg, ali and search handlers, their adapters, and the pure  *)
(* helpers they share (normalizeUrl, parseMoney, dedupe, scoreDeal, sort,  *)
(* paginate).                                                              *)
(*                                                                         *)
(* Representation.  A JavaScript string is a sequence of characters; a     *)
(* character is a TLA+ string.  Characters that some operation of the code *)
(* looks at ("/", "?", "!", "-", " ", "%", ",", ".") are always characters *)
(* of their own; a run of other letters may be written as one character    *)
(* ("x.com", "http:").  undefined/"" strings are both <<>> (every use in   *)
(* the code goes through `x || ...` or a truthiness test).  An optional    *)
(* number is a set with at most one element: {} is undefined.              *)
(***************************************************************************)
EXTENDS Integers, Sequences, FiniteSets, TLC

VARIABLES
    call,          \* pure-function specifications: the arguments drawn by Init
    ret,           \* pure-function specifications: the result, once applied
    fn,            \* which function this process (a lambda instance) runs
    now,           \* Date.now(), in milliseconds
    upstream,      \* what the upstream services would answer
    SHEETS_CACHE,  \* coupons.ts: the spreadsheet TTL cache
    BANGGOOD_CACHE, \* coupons.ts (second handler): the coupon TTL cache
    ACCESS_TOKEN,  \* bg.ts: the bearer-token cache
    LAST_JSON,     \* the retained snapshot body ("" is <<>>)
    LAST_ETAG,     \* the retained snapshot ETag
    req,           \* the request being answered, with the time and world it met
    resp           \* the response to it

vars == <<call, ret, fn, now, upstream, SHEETS_CACHE, BANGGOOD_CACHE, ACCESS_TOKEN,
          LAST_JSON, LAST_ETAG, req, resp>>
pureVars == <<call, ret>>
httpVars == <<fn, now, upstream, SHEETS_CACHE, BANGGOOD_CACHE, ACCESS_TOKEN,
              LAST_JSON, LAST_ETAG, req, resp>>

(***************************************************************************)
(* Strings                                                                 *)
(***************************************************************************)
LowerChar(c) ==
    CASE c = "C" -> "c" [] c = "N" -> "n" [] c = "E" -> "e" [] c = "U" -> "u"
      [] c = "Z" -> "z" [] c = "HTTP:" -> "http:" [] c = "Banggood" -> "banggood"
      [] c = "Geekbuying" -> "geekbuying" [] c = "AliExpress" -> "aliexpress"
      [] c = "Timeout" -> "timeout"
      [] OTHER -> c

UpperChar(c) ==
    CASE c = "c" -> "C" [] c = "n" -> "N" [] c = "e" -> "E" [] c = "u" -> "U"
      [] c = "z" -> "Z" [] OTHER -> c

toLowerCase(s) == [i \in 1..Len(s) |-> LowerChar(s[i])]
toUpperCase(s) == [i \in 1..Len(s) |-> UpperChar(s[i])]

\* s.includes(q)
includes(s, q) ==
    \E i \in 0..(Len(s) - Len(q)) : SubSeq(s, i + 1, i + Len(q)) = q

\* s.startsWith(p)
startsWith(s, p) == Len(s) >= Len(p) /\ SubSeq(s, 1, Len(p)) = p

\* s.trim()
RECURSIVE trimStart(_)
trimStart(s) == IF s # <<>> /\ Head(s) = " " THEN trimStart(Tail(s)) ELSE s
RECURSIVE trimEnd(_)
trimEnd(s) ==
    IF s # <<>> /\ s[Len(s)] = " " THEN trimEnd(SubSeq(s, 1, Len(s) - 1)) ELSE s
trim(s) == trimEnd(trimStart(s))

\* The index of the first c in s, 0 when there is none.
RECURSIVE indexOfFrom(_, _, _)
indexOfFrom(s, c, i) ==
    IF i > Len(s) THEN 0 ELSE IF s[i] = c THEN i ELSE indexOfFrom(s, c, i + 1)
indexOf(s, c) == indexOfFrom(s, c, 1)

\* The index of the last c in s, 0 when there is none.
RECURSIVE lastIndexOfFrom(_, _, _)
lastIndexOfFrom(s, c, i) ==
    IF i < 1 THEN 0 ELSE IF s[i] = c THEN i ELSE lastIndexOfFrom(s, c, i - 1)
lastIndexOf(s, c) == lastIndexOfFrom(s, c, Len(s))

\* s.split(c)[0]
splitFirst(s, c) ==
    IF indexOf(s, c) = 0 THEN s ELSE SubSeq(s, 1, indexOf(s, c) - 1)

\* s.split(c).pop()
splitLast(s, c) == SubSeq(s, lastIndexOf(s, c) + 1, Len(s))

\* s.replace(/c.*$/, "")
cutFrom(s, c) == splitFirst(s, c)

\* s.replace(/c/g, d) with d a string
RECURSIVE replaceAll(_, _, _)
replaceAll(s, c, d) ==
    IF s = <<>> THEN <<>>
    ELSE (IF Head(s) = c THEN d ELSE <<Head(s)>>) \o replaceAll(Tail(s), c, d)

\* s.replace(c, d): the first occurrence only
replaceFirst(s, c, d) ==
    IF indexOf(s, c) = 0 THEN s
    ELSE SubSeq(s, 1, indexOf(s, c) - 1) \o d \o SubSeq(s, indexOf(s, c) + 1, Len(s))

\* The pieces of s between the separators c
RECURSIVE split(_, _)
split(s, c) ==
    IF indexOf(s, c) = 0 THEN <<s>>
    ELSE <<SubSeq(s, 1, indexOf(s, c) - 1)>>
           \o split(SubSeq(s, indexOf(s, c) + 1, Len(s)), c)

\* pieces.join(c)
RECURSIVE join(_, _)
join(pieces, c) ==
    IF pieces = <<>> THEN <<>>
    ELSE IF Len(pieces) = 1 THEN pieces[1]
    ELSE pieces[1] \o c \o join(Tail(pieces), c)

\* The pieces that are not empty
RECURSIVE nonEmpty(_)
nonEmpty(pieces) ==
    IF pieces = <<>> THEN <<>>
    ELSE (IF Head(pieces) = <<>> THEN <<>> ELSE <<Head(pieces)>>)
           \o nonEmpty(Tail(pieces))

\* crypto md5 hex digest of a string, as a string: a hash taken to be free of
\* collisions, so that two digests are equal exactly when their inputs are.
md5(s) == <<"md5(">> \o s \o <<")">>

(***************************************************************************)
(* URL helpers                                                             *)
(***************************************************************************)
\* encodeURI: a space and a percent sign are escaped, reserved and
\* unreserved characters are kept.
RECURSIVE encodeURI(_)
encodeURI(s) ==
    IF s = <<>> THEN <<>>
    ELSE (CASE Head(s) = " " -> <<"%", "20">>
            [] Head(s) = "%" -> <<"%", "25">>
            [] OTHER -> <<Head(s)>>) \o encodeURI(Tail(s))

\* s.replace(/^http:/i, "https:")
upgradeHttpI(s) ==
    IF s # <<>> /\ LowerChar(s[1]) = "http:" THEN <<"https:">> \o Tail(s) ELSE s

\* s.replace(/^http:/, "https:")
upgradeHttp(s) ==
    IF s # <<>> /\ s[1] = "http:" THEN <<"https:">> \o Tail(s) ELSE s

\* /^https?:\/\//i.test(s)
isHttpUrl(s) ==
    /\ Len(s) >= 3
    /\ LowerChar(s[1]) \in {"http:", "https:"}
    /\ s[2] = "/" /\ s[3] = "/"

\* coupons.ts (first handler): only absolute http(s) links are normalized
normalizeUrl_sheets(u) ==
    IF ~isHttpUrl(trim(u)) THEN <<>> ELSE encodeURI(upgradeHttpI(trim(u)))

\* coupons.ts (second handler): a case-sensitive upgrade, no scheme test
normalizeUrl_coupons(u) ==
    IF u = <<>> THEN <<>> ELSE encodeURI(upgradeHttp(u))

\* bg.ts
normalizeUrl_bg(u) ==
    IF u = <<>> THEN <<>> ELSE encodeURI(upgradeHttpI(u))

\* ali.ts: protocol-relative links get https: first
normalizeUrl(u) ==
    IF u = <<>> THEN <<>>
    ELSE encodeURI(upgradeHttpI(
           IF startsWith(u, <<"/", "/">>) THEN <<"https:">> \o u ELSE u))

(***************************************************************************)
(* Money and dates                                                         *)
(***************************************************************************)
Digits == <<"0", "1", "2", "3", "4", "5", "6", "7", "8", "9">>
isDigit(c) == indexOf(Digits, c) # 0
digitVal(c) == indexOf(Digits, c) - 1

\* The longest prefix of s made of digits.
RECURSIVE digitPrefix(_)
digitPrefix(s) ==
    IF s # <<>> /\ isDigit(Head(s)) THEN <<Head(s)>> \o digitPrefix(Tail(s)) ELSE <<>>

RECURSIVE toNat(_)
toNat(ds) ==
    IF ds = <<>> THEN 0 ELSE 10 * toNat(SubSeq(ds, 1, Len(ds) - 1)) + digitVal(ds[Len(ds)])

\* s.replace(/[^\d.]/g, "") and s.replace(/[^\d.,]/g, "")
keepChars(s, extra) == SelectSeq(s, LAMBDA c : isDigit(c) \/ c \in extra)

\* parseFloat(s) followed by Number.isFinite: the longest decimal prefix of s.
\* A number is held in hundredths (39.99 is 3999); fraction digits past the
\* second are cut, so the model's inputs carry at most two.
parseFloat(s) ==
    LET ip   == digitPrefix(s)
        rest == SubSeq(s, Len(ip) + 1, Len(s))
        fp   == IF rest # <<>> /\ Head(rest) = "." THEN digitPrefix(Tail(rest)) ELSE <<>>
        f2   == SubSeq(fp \o <<"0", "0">>, 1, 2)
    IN  IF ip = <<>> /\ fp = <<>> THEN {} ELSE {toNat(ip) * 100 + toNat(f2)}

\* A resolution that takes the dot for the decimal mark whatever comes last
resolveMarks_dotDecimal(s) == replaceAll(s, ",", <<>>)

\* The decimal-mark resolution both parseMoney versions share.
resolveMarks(s) ==
    LET hasComma == indexOf(s, ",") # 0
        hasDot   == indexOf(s, ".") # 0
    IN  IF hasComma /\ ~hasDot THEN replaceFirst(s, ",", <<".">>)
        ELSE IF hasComma /\ hasDot
             THEN IF lastIndexOf(s, ",") > lastIndexOf(s, ".")
                  THEN replaceFirst(replaceAll(s, ".", <<>>), ",", <<".">>)
                  ELSE replaceAll(s, ",", <<>>)
             ELSE s

\* parts = s.split("."); if (parts.length > 2) s = parts.join("") + "." + dec
joinDots(s) ==
    IF lastIndexOf(s, ".") # indexOf(s, ".")
    THEN replaceAll(SubSeq(s, 1, lastIndexOf(s, ".") - 1), ".", <<>>)
           \o SubSeq(s, lastIndexOf(s, "."), Len(s))
    ELSE s

\* coupons.ts parseMoney: whitespace is removed, the marks resolved, then
\* everything but digits and dots is removed.
parseMoney_coupons(v) ==
    IF trim(v) = <<>> THEN {}
    ELSE parseFloat(joinDots(keepChars(resolveMarks(replaceAll(trim(v), " ", <<>>)), {"."})))

\* bg.ts and ali.ts parseMoney: everything but digits, dots and commas is
\* removed first, then the marks are resolved.
parseMoney(v) ==
    IF trim(v) = <<>> THEN {}
    ELSE parseFloat(joinDots(resolveMarks(keepChars(trim(v), {".", ","}))))

\* a ?? b on optional numbers
orElse(a, b) == IF a = {} THEN b ELSE a

\* A date cell or field of the upstream: absent, a date (its time in ms) or
\* text that Date cannot parse.
NoDate == [k |-> "none", t |-> 0]
DateAt(t) == [k |-> "date", t |-> t]
JunkDate == [k |-> "junk", t |-> 0]

\* toISO(d): undefined for an absent or unparsable value, else the instant.
toISO(d) == IF d.k = "date" THEN {d.t} ELSE {}

(***************************************************************************)
(* The canonical Deal and the adapters' mappings.  A Deal keeps the fields *)
(* some handler reads or hashes: id, src, store, title, url, price, orig,  *)
(* code, wh, end, updated, tags (image, short, cur, start and residual are *)
(* copied through to the JSON and read by nothing).                        *)
(***************************************************************************)
Deal(id, src, store, title, url, price, orig, code, wh, end, updated, tags) ==
    [id |-> id, src |-> src, store |-> store, title |-> title, url |-> url,
     price |-> price, orig |-> orig, code |-> code, wh |-> wh, end |-> end,
     updated |-> updated, tags |-> tags]

\* coupons.ts (first handler), SHEETS: the sheets read, in order, with the
\* store each stands for.
SHEETS == << [title |-> <<"Geekbuying", " ", "Unique">>, store |-> <<"Geekbuying">>],
             [title |-> <<"Geekbuying">>,                store |-> <<"Geekbuying">>],
             [title |-> <<"BG", " ", "Unique", " ", "HUN">>, store |-> <<"Banggood">>] >>

\* coupons.ts (first handler), the body of the row loop of fetchSheetsDeals:
\* the Deals (none or one) a row of sheet k gives.  A row holds the cells
\* name, link, price, code, wh, cats (strings), end and upd (date cells).
sheetRowDeals(k, row) ==
    IF row.name = <<>> \/ row.link = <<>> THEN <<>>
    ELSE LET url == IF normalizeUrl_sheets(row.link) # <<>>
                    THEN normalizeUrl_sheets(row.link) ELSE row.link
         IN  << Deal(<<"sheets:">> \o md5(SHEETS[k].title \o <<"|">> \o url \o <<"|">> \o row.code),
                     "sheets", SHEETS[k].store, row.name, url,
                     parseMoney_coupons(row.price), {}, row.code, row.wh,
                     toISO(row.end), toISO(row.upd), <<>>) >>

\* coupons.ts (second handler), the body of the row loop of its
\* fetchSheetsDeals, on the cells the header resolution found: a row whose
\* end date is not after the fetch is skipped, and the categories cell gives
\* the tags: split at commas, trimmed, the empty ones dropped.
sheetRowDeals_coupons(row, t) ==
    IF row.name = <<>> \/ row.link = <<>> THEN <<>>
    ELSE IF toISO(row.end) # {} /\ ~(\E e \in toISO(row.end) : e > t) THEN <<>>
    ELSE LET url == IF normalizeUrl_coupons(row.link) # <<>>
                    THEN normalizeUrl_coupons(row.link) ELSE row.link
         IN  << Deal(<<"sheets:">> \o md5(<<"'Geekbuying'!A:Z500", "|">> \o url \o <<"|">> \o row.code),
                     "sheets", <<>>, row.name, url,
                     parseMoney_coupons(row.price), {}, row.code, row.wh,
                     toISO(row.end), toISO(row.upd),
                     nonEmpty([i \in 1..Len(split(row.cats, ",")) |->
                                 trim(split(row.cats, ",")[i])])) >>

\* bg.ts appendAffiliate, with p the trimmed BANGGOOD_AFFILIATE_PARAM
appendAffiliate(u, p) ==
    IF p = <<>> THEN u
    ELSE IF includes(u, <<"?">>) THEN u \o <<"&", "p", "=">> \o encodeURI(p)
         ELSE u \o <<"?", "p", "=">> \o encodeURI(p)

\* The coupon's display name: the last path segment of the standard link
\* with dashes as spaces and anything from "?" or "!" cut, else only_for,
\* else a fixed text.
couponName(c) ==
    LET slug == cutFrom(cutFrom(replaceAll(splitLast(c.promo_link_standard, "/"),
                                           "-", <<" ">>), "?"), "!")
    IN  IF slug # <<>> THEN slug
        ELSE IF c.only_for # <<>> THEN c.only_for ELSE <<"Banggood", " ", "deal">>

\* bg.ts mapCouponToDeal, at time t with affiliate parameter p
mapCouponToDeal(c, p, t) ==
    LET shortHttps == upgradeHttpI(c.promo_link_short)
        safeStd    == normalizeUrl_bg(c.promo_link_standard)
        finalUrl   == appendAffiliate(
                        IF shortHttps # <<>> THEN shortHttps
                        ELSE IF safeStd # <<>> THEN safeStd ELSE <<"#">>, p)
    IN  Deal(<<"banggood:">> \o md5(c.promo_link_standard \o <<"|">> \o c.coupon_code),
             "banggood", <<"Banggood">>, couponName(c), finalUrl,
             orElse(parseMoney(c.condition), parseMoney(c.original_price)),
             parseMoney(c.original_price), c.coupon_code, c.warehouse,
             toISO(c.coupon_date_end), {t}, <<>>)

\* coupons.ts (second handler), the coupon mapping inside fetchBanggoodDeals:
\* no affiliate parameter, a case-sensitive https upgrade, and "?"/"!" cut
\* from the name whatever its source.
mapCouponToDeal_coupons(c, t) ==
    LET slug       == replaceAll(splitLast(c.promo_link_standard, "/"), "-", <<" ">>)
        name       == IF slug # <<>> THEN slug
                      ELSE IF c.only_for # <<>> THEN c.only_for
                      ELSE <<"Banggood", " ", "deal">>
        shortHttps == upgradeHttp(c.promo_link_short)
        safeStd    == normalizeUrl_coupons(c.promo_link_standard)
    IN  Deal(<<"banggood:">> \o md5(c.promo_link_standard \o <<"|">> \o c.coupon_code),
             "banggood", <<>>, cutFrom(cutFrom(name, "?"), "!"),
             IF shortHttps # <<>> THEN shortHttps
             ELSE IF safeStd # <<>> THEN safeStd ELSE <<"#">>,
             orElse(parseMoney_coupons(c.condition), parseMoney_coupons(c.original_price)),
             parseMoney_coupons(c.original_price), c.coupon_code, c.warehouse,
             toISO(c.coupon_date_end), {t}, <<>>)

\* ali.ts mapAliProductToDeal, at time t
mapAliProductToDeal(p, t) ==
    LET title  == IF p.product_title # <<>> THEN p.product_title
                  ELSE IF p.subject # <<>> THEN p.subject
                  ELSE <<"AliExpress", " ", "product">>
        promo  == normalizeUrl(p.promotion_link)
        detail == normalizeUrl(p.product_detail_url)
        url    == IF promo # <<>> THEN promo
                  ELSE IF detail # <<>> THEN detail ELSE <<"#">>
    IN  Deal(<<"aliexpress:">> \o (IF p.product_id # <<>> THEN p.product_id
                                  ELSE md5(title \o url)),
             "aliexpress", <<"AliExpress">>, title, url,
             parseMoney(p.target_sale_price), parseMoney(p.target_original_price),
             <<>>, p.ship_from_country, {}, {t}, <<>>)

\* items.map(f) for a mapping given as a function of the position
mapSeq(items, F(_)) == [i \in 1..Len(items) |-> F(items[i])]

\* lists.flat()
RECURSIVE flat(_)
flat(lists) == IF lists = <<>> THEN <<>> ELSE Head(lists) \o flat(Tail(lists))

(***************************************************************************)
(* dedupe: the first Deal of each key is kept                              *)
(***************************************************************************)
\* coupons.ts (first handler): md5 of `${d.url}|${d.code || ""}`
dedupeKey_sheets(d) == md5(d.url \o <<"|">> \o d.code)

\* coupons.ts (second handler): md5 of `${d.src}|${d.url}|${d.code || ""}`
dedupeKey_coupons(d) == md5(<<d.src, "|">> \o d.url \o <<"|">> \o d.code)

\* search.ts: d.id || `${urlNoQuery}::${d.code || ""}`
dedupeKey_search(d) ==
    IF d.id # <<>> THEN d.id ELSE splitFirst(d.url, "?") \o <<":", ":">> \o d.code

\* for (const d of items) { if (!seen.has(key)) { seen.add(key); out.push(d) } }
RECURSIVE dedupeLoop(_, _, _, _)
dedupeLoop(items, keys, seen, out) ==
    IF items = <<>> THEN out
    ELSE IF Head(keys) \in seen
         THEN dedupeLoop(Tail(items), Tail(keys), seen, out)
         ELSE dedupeLoop(Tail(items), Tail(keys), seen \cup {Head(keys)},
                         Append(out, Head(items)))

dedupe_sheets(items) == dedupeLoop(items, mapSeq(items, dedupeKey_sheets), {}, <<>>)
dedupe_coupons(items) == dedupeLoop(items, mapSeq(items, dedupeKey_coupons), {}, <<>>)
dedupe(items) == dedupeLoop(items, mapSeq(items, dedupeKey_search), {}, <<>>)

(***************************************************************************)
(* Numbers in query parameters                                             *)
(***************************************************************************)
Max(a, b) == IF a > b THEN a ELSE b
Min(a, b) == IF a < b THEN a ELSE b
sign(n) == IF n > 0 THEN 1 ELSE IF n < 0 THEN -1 ELSE 0
val(o) == CHOOSE v \in o : TRUE

\* parseInt(s, 10): leading white space, an optional sign, then the longest
\* run of digits; NaN ({}) when there is none.
parseInt(s) ==
    LET t   == trimStart(s)
        neg == t # <<>> /\ Head(t) = "-"
        u   == IF t # <<>> /\ Head(t) \in {"-", "+"} THEN Tail(t) ELSE t
        ds  == digitPrefix(u)
    IN  IF ds = <<>> THEN {} ELSE {IF neg THEN 0 - toNat(ds) ELSE toNat(ds)}

\* String(n) for an integer n
RECURSIVE natStr(_)
natStr(n) == IF n < 10 THEN <<Digits[n + 1]>> ELSE natStr(n \div 10) \o <<Digits[(n % 10) + 1]>>
String(n) == IF n < 0 THEN <<"-">> \o natStr(0 - n) ELSE natStr(n)

\* A numeric query parameter as the handlers read it,
\* qs.get(k) ? Number(qs.get(k)) : undefined: undefined for an absent or empty
\* parameter, NaN for text that is no number, else the number (in hundredths).
NumUndefined == [k |-> "undefined", n |-> 0]
NumNaN == [k |-> "nan", n |-> 0]
Num(n) == [k |-> "num", n |-> n]
Number(s) ==
    LET t   == trim(s)
        neg == t # <<>> /\ Head(t) = "-"
        u   == IF t # <<>> /\ Head(t) \in {"-", "+"} THEN Tail(t) ELSE t
        ip  == digitPrefix(u)
        r   == SubSeq(u, Len(ip) + 1, Len(u))
        fp  == IF r # <<>> /\ Head(r) = "." THEN digitPrefix(Tail(r)) ELSE <<>>
        all == Len(ip) + (IF r # <<>> /\ Head(r) = "." THEN 1 + Len(fp) ELSE 0) = Len(u)
    IN  IF t = <<>> THEN Num(0)
        ELSE IF ~all \/ (ip = <<>> /\ fp = <<>>) THEN NumNaN
        ELSE Num((IF neg THEN -1 ELSE 1) * val(parseFloat(u)))
numParam(s) == IF s = <<>> THEN NumUndefined ELSE Number(s)

\* Math.max(1, Math.min(200, parseInt(qs.get("limit") || dflt, 10))): NaN ({})
\* when the parameter has no leading integer.
LIMIT_MAX == 200
clampLimit(s, dflt) ==
    LET n == parseInt(IF s = <<>> THEN dflt ELSE s)
    IN  IF n = {} THEN {} ELSE {Max(1, Min(LIMIT_MAX, val(n)))}

(***************************************************************************)
(* paginate                                                                *)
(***************************************************************************)
\* cursor ? parseInt(cursor, 10) || 0 : 0
cursorStart(cursor) ==
    IF cursor = <<>> \/ parseInt(cursor) = {} THEN 0 ELSE val(parseInt(cursor))

\* Array.prototype.slice(start, end): a negative index counts from the end,
\* and a NaN end ({}) is 0.
slice(items, start, end) ==
    LET len  == Len(items)
        rel(i) == IF i < 0 THEN Max(len + i, 0) ELSE Min(i, len)
        to   == IF end = {} THEN 0 ELSE rel(val(end))
    IN  SubSeq(items, rel(start) + 1, to)

\* start + limit, NaN when limit is
plus(start, limit) == IF limit = {} THEN {} ELSE {start + val(limit)}

\* page = all.slice(start, start + limit)
pageOf(all, start, limit) == slice(all, start, plus(start, limit))

\* nextCursor = start + limit < all.length ? String(start + limit) : null,
\* null being <<>>
nextCursorOf(total, start, limit) ==
    IF limit # {} /\ start + val(limit) < total THEN String(start + val(limit)) ELSE <<>>

(***************************************************************************)
(* scoreDeal.  A score is a real number; it is held exactly as p points    *)
(* plus f/DAY_MS of a point (0 <= f < DAY_MS), and two scores are compared *)
(* on (p, f).  The discount part is exact when the original price (in      *)
(* hundredths) divides DAY_MS, as the prices of the model's inputs do.     *)
(***************************************************************************)
DAY_MS == 86400000

Score(p, f) == [p |-> p + (f \div DAY_MS), f |-> f % DAY_MS]
addScore(a, b) == Score(a.p + b.p, a.f + b.f)
\* sign(a - b) of two scores
cmpScore(a, b) == IF a.p # b.p THEN sign(a.p - b.p) ELSE sign(a.f - b.f)

\* if (d.end) s += 10 - Math.min(10, Math.max(0, (end - Date.now()) / 86400000))
endBonus(d, t) ==
    IF d.end = {} THEN Score(0, 0)
    ELSE Score(0, 10 * DAY_MS - Min(10 * DAY_MS, Max(0, val(d.end) - t)))

\* Math.min(8, Math.max(0, (100 * (1 - price / orig)) / 5)) for price < orig
discountBonus(d) ==
    LET o   == val(d.orig)
        num == 20 * (o - val(d.price))
    IN  IF num \div o >= 8 THEN Score(8, 0)
        ELSE Score(num \div o, (num % o) * (DAY_MS \div o))

\* (d.wh || "").toUpperCase() !== "CN"
notCN(d) == toUpperCase(d.wh) # <<"C", "N">>

\* coupons.ts (first handler) scoreDeal: origin and expiry only
scoreDeal_sheets(d, t) ==
    addScore(IF notCN(d) THEN Score(10, 0) ELSE Score(0, 0), endBonus(d, t))

\* bg.ts and coupons.ts (second handler) scoreDeal: `d.price && d.orig`
scoreDeal_bg(d, t) ==
    addScore(addScore(IF notCN(d) THEN Score(10, 0) ELSE Score(0, 0), endBonus(d, t)),
             IF d.price # {} /\ d.price # {0} /\ d.orig # {} /\ d.orig # {0}
                /\ val(d.price) < val(d.orig)
             THEN discountBonus(d) ELSE Score(0, 0))

\* search.ts scoreDeal: `wh && wh !== "CN"` and `d.price != null && d.orig`
scoreDeal(d, t) ==
    addScore(addScore(IF d.wh # <<>> /\ notCN(d) THEN Score(10, 0) ELSE Score(0, 0),
                      endBonus(d, t)),
             IF d.price # {} /\ d.orig # {} /\ d.orig # {0} /\ val(d.price) < val(d.orig)
             THEN discountBonus(d) ELSE Score(0, 0))

(***************************************************************************)
(* sort                                                                    *)
(***************************************************************************)
\* x ?? Infinity (inf = 1) and x ?? -Infinity (inf = -1)
orInfinity(x, inf) == IF x = {} THEN [inf |-> inf, n |-> 0] ELSE [inf |-> 0, n |-> val(x)]

\* The sign of x - y on numbers that may be infinite.  Infinity - Infinity is
\* NaN, which sort takes as 0.
subSign(x, y) ==
    IF x.inf # 0 /\ y.inf # 0 THEN (IF x.inf = y.inf THEN 0 ELSE x.inf)
    ELSE IF x.inf # 0 THEN x.inf
    ELSE IF y.inf # 0 THEN 0 - y.inf
    ELSE sign(x.n - y.n)

\* (a, b) => (a.price ?? Infinity) - (b.price ?? Infinity)
cmpPriceAsc(a, b) == subSign(orInfinity(a.price, 1), orInfinity(b.price, 1))

\* The descending comparator had it read a missing price as +Infinity
cmpPriceDesc_plusInfinity(a, b) == subSign(orInfinity(b.price, 1), orInfinity(a.price, 1))

\* (a, b) => (b.price ?? -Infinity) - (a.price ?? -Infinity)
cmpPriceDesc(a, b) == subSign(orInfinity(b.price, -1), orInfinity(a.price, -1))

\* search.ts inferStore: the store field, else the store of the link's host
hasHost(u, hosts) == \E i \in 1..Len(u) : LowerChar(u[i]) \in hosts
inferStore(d) ==
    IF d.store # <<>> THEN d.store
    ELSE IF hasHost(d.url, {"banggood.com", "www.banggood.com"}) THEN <<"Banggood">>
    ELSE IF hasHost(d.url, {"geekbuying.com", "www.geekbuying.com"}) THEN <<"Geekbuying">>
    ELSE IF hasHost(d.url, {"aliexpress.com", "s.click.aliexpress.com"}) THEN <<"AliExpress">>
    ELSE <<>>

\* a.localeCompare(b) on store names: the empty name first, then by letter
storeRank(name) ==
    CASE name = <<>> -> 0
      [] toLowerCase(name) = <<"aliexpress">> -> 1
      [] toLowerCase(name) = <<"banggood">> -> 2
      [] toLowerCase(name) = <<"geekbuying">> -> 3
      [] OTHER -> 4
localeCompare(a, b) == sign(storeRank(a) - storeRank(b))

\* The comparator each sort key stands for; t is Date.now().
compareBy(key, a, b, t) ==
    CASE key = "price_asc"    -> cmpPriceAsc(a, b)
      [] key = "price_desc"   -> cmpPriceDesc(a, b)
      [] key = "store_asc"    -> localeCompare(a.store, b.store)
      [] key = "store_desc"   -> localeCompare(b.store, a.store)
      [] key = "infer_asc"    -> localeCompare(inferStore(a), inferStore(b))
      [] key = "infer_desc"   -> 0 - localeCompare(inferStore(a), inferStore(b))
      [] key = "score_sheets" -> cmpScore(scoreDeal_sheets(b, t), scoreDeal_sheets(a, t))
      [] key = "score_bg"     -> cmpScore(scoreDeal_bg(b, t), scoreDeal_bg(a, t))
      [] key = "score"        -> cmpScore(scoreDeal(b, t), scoreDeal(a, t))

\* Array.prototype.sort(cmp): a stable sort.  x goes after every element
\* that does not compare greater than it.
RECURSIVE insertSorted(_, _, _, _, _)
insertSorted(sorted, j, x, key, t) ==
    IF j >= 1 /\ compareBy(key, sorted[j], x, t) > 0
    THEN insertSorted(sorted, j - 1, x, key, t)
    ELSE SubSeq(sorted, 1, j) \o <<x>> \o SubSeq(sorted, j + 1, Len(sorted))

RECURSIVE sortFrom(_, _, _, _)
sortFrom(items, sorted, key, t) ==
    IF items = <<>> THEN sorted
    ELSE sortFrom(Tail(items), insertSorted(sorted, Len(sorted), Head(items), key, t), key, t)

sort(items, key, t) == sortFrom(items, <<>>, key, t)

(***************************************************************************)
(* filter                                                                  *)
(***************************************************************************)
\* if (q) all = all.filter(title or code contains q), q in lower case
filterQ(all, q) ==
    IF q = <<>> THEN all
    ELSE SelectSeq(all, LAMBDA d : \/ includes(toLowerCase(d.title), q)
                                   \/ includes(toLowerCase(d.code), q))

\* A keyword filter that looks at the title alone
filterQ_titleOnly(all, q) ==
    IF q = <<>> THEN all
    ELSE SelectSeq(all, LAMBDA d : includes(toLowerCase(d.title), q))

\* coupons.ts (second handler): a tag containing q matches too
filterQ_coupons(all, q) ==
    IF q = <<>> THEN all
    ELSE SelectSeq(all, LAMBDA d : \/ includes(toLowerCase(d.title), q)
                                   \/ includes(toLowerCase(d.code), q)
                                   \/ \E i \in 1..Len(d.tags) :
                                          includes(toLowerCase(d.tags[i]), q))

\* coupons.ts (first handler): (d.wh || "").toLowerCase() === t
filterWh_sheets(all, whFilter) ==
    IF whFilter = <<>> THEN all
    ELSE SelectSeq(all, LAMBDA d : toLowerCase(d.wh) = toLowerCase(whFilter))

\* coupons.ts (second handler): an exact match, or EU for anything but CN
filterWh_coupons(all, whFilter) ==
    IF whFilter = <<>> THEN all
    ELSE SelectSeq(all, LAMBDA d : \/ toUpperCase(d.wh) = whFilter
                                   \/ (whFilter = <<"E", "U">> /\ notCN(d)))

\* bg.ts: (d.wh || "").toUpperCase() === whFilter
filterWh_bg(all, whFilter) ==
    IF whFilter = <<>> THEN all
    ELSE SelectSeq(all, LAMBDA d : toUpperCase(d.wh) = whFilter)

\* search.ts: !d.wh || String(d.wh).toUpperCase() === WH
filterWh(all, wh) ==
    IF wh = <<>> THEN all
    ELSE SelectSeq(all, LAMBDA d : d.wh = <<>> \/ toUpperCase(d.wh) = toUpperCase(wh))

\* coupons.ts (first handler): d.store === storeFilter
filterStore_sheets(all, storeFilter) ==
    IF storeFilter = <<>> THEN all ELSE SelectSeq(all, LAMBDA d : d.store = storeFilter)

\* search.ts: inferStore(d).toLowerCase() === store.toLowerCase()
filterStore(all, store) ==
    IF store = <<>> THEN all
    ELSE SelectSeq(all, LAMBDA d : toLowerCase(inferStore(d)) = toLowerCase(store))

\* coupons.ts (second handler): d.src === srcFilter
filterSrc(all, srcFilter) ==
    IF srcFilter = <<>> THEN all ELSE SelectSeq(all, LAMBDA d : <<d.src>> = srcFilter)

\* The minPrice filter had it read a missing price as 0, as maxPrice does
filterMinPrice_zero(all, minPrice) ==
    IF minPrice.k = "undefined" THEN all
    ELSE SelectSeq(all, LAMBDA d :
            /\ minPrice.k = "num"
            /\ (IF d.price = {} THEN 0 ELSE val(d.price)) >= minPrice.n)

\* if (typeof minPrice === "number") filter((d.price ?? Infinity) >= minPrice):
\* NaN is a number and nothing compares to it.
filterMinPrice(all, minPrice) ==
    IF minPrice.k = "undefined" THEN all
    ELSE SelectSeq(all, LAMBDA d :
            /\ minPrice.k = "num"
            /\ subSign(orInfinity(d.price, 1), orInfinity({minPrice.n}, 1)) >= 0)

\* if (typeof maxPrice === "number") filter((d.price ?? 0) <= maxPrice)
filterMaxPrice(all, maxPrice) ==
    IF maxPrice.k = "undefined" THEN all
    ELSE SelectSeq(all, LAMBDA d :
            /\ maxPrice.k = "num"
            /\ (IF d.price = {} THEN 0 ELSE val(d.price)) <= maxPrice.n)

\* Array.from(new Set(items.map(d => d.wh).filter(Boolean))).sort(): the
\* distinct warehouses (their order is a function of the set).
warehousesOf(items) == {items[i].wh : i \in 1..Len(items)} \ {<<>>}
storesOf(items) == {inferStore(items[i]) : i \in 1..Len(items)} \ {<<>>}

\* What a handler works out from its query and its adapters' Deals: the
\* filtered list, the same list sorted (all), the offset, the page size, the
\* page.
Feed(filtered, all, start, limit, meta) ==
    [filtered |-> filtered, all |-> all, start |-> start, limit |-> limit,
     page |-> pageOf(all, start, limit),
     nextCursor |-> nextCursorOf(Len(all), start, limit),
     meta |-> meta]

\* The query parameters a request may carry, each a string (<<>> when absent).
Query(q, wh, store, src, sortP, limit, cursor, minPrice, maxPrice) ==
    [q |-> q, wh |-> wh, store |-> store, src |-> src, sort |-> sortP,
     limit |-> limit, cursor |-> cursor, minPrice |-> minPrice, maxPrice |-> maxPrice]

\* coupons.ts (first handler), from the parameters to the page; items are
\* fetchSheetsDeals' Deals and meta its warehouses and stores.
feed_sheets(items, meta, qy, t) ==
    LET sortP == toLowerCase(qy.sort)
        key   == IF sortP \in {<<"price_asc">>, <<"price_desc">>, <<"store_asc">>, <<"store_desc">>}
                 THEN sortP[1] ELSE "score_sheets"
        filtered == filterStore_sheets(
                        filterWh_sheets(filterQ(items, toLowerCase(qy.q)), trim(qy.wh)),
                        trim(qy.store))
        all   == sort(filtered, key, t)
    IN  Feed(filtered, all, cursorStart(qy.cursor), clampLimit(qy.limit, <<"1", "0", "0">>), meta)

\* coupons.ts (second handler): the demo Deal that stands in for an empty feed
demoDeal(t) ==
    Deal(<<"demo-1">>, "sheets", <<>>, <<"BlitzWolf", " ", "BW-XYZ">>,
         <<"https:", "/", "/", "example.com">>, {3999}, {5999}, <<"BGDEMO">>,
         <<"E", "U">>, {t + 3600000 * 24}, {t}, << <<"gan">>, <<"charger">> >>)

\* coupons.ts (second handler), from the merged adapter lists to the page
feed_coupons(lists, qy, t) ==
    LET merged == dedupe_coupons(flat(lists))
        all0   == IF merged = <<>> THEN <<demoDeal(t)>> ELSE merged
        filtered == filterMaxPrice(filterMinPrice(filterSrc(
                        filterWh_coupons(filterQ_coupons(all0, toLowerCase(qy.q)),
                                         toUpperCase(qy.wh)),
                        toLowerCase(qy.src)), numParam(qy.minPrice)), numParam(qy.maxPrice))
        all    == sort(filtered, "score_bg", t)
    IN  Feed(filtered, all, cursorStart(qy.cursor), clampLimit(qy.limit, <<"1", "0", "0">>), {})

\* bg.ts, from the mapped coupons (and catalog items) to the page
feed_bg(items, qy, t) ==
    LET sortP == toLowerCase(qy.sort)
        key   == IF sortP \in {<<"price_asc">>, <<"price_desc">>} THEN sortP[1] ELSE "score_bg"
        filtered == filterMaxPrice(filterMinPrice(
                        filterWh_bg(filterQ(items, toLowerCase(trim(qy.q))), toUpperCase(qy.wh)),
                        numParam(qy.minPrice)), numParam(qy.maxPrice))
        all   == sort(filtered, key, t)
    IN  Feed(filtered, all, cursorStart(qy.cursor), clampLimit(qy.limit, <<"1", "0", "0">>),
             warehousesOf(all))

\* search.ts sortItems: the sort parameter is compared as it came
sortItems(items, sortP, t) ==
    sort(items, CASE sortP = <<"price_asc">> -> "price_asc"
                  [] sortP = <<"price_desc">> -> "price_desc"
                  [] sortP = <<"store_asc">> -> "infer_asc"
                  [] sortP = <<"store_desc">> -> "infer_desc"
                  [] OTHER -> "score", t)

\* search.ts, from the three endpoints' items to the page
feed_search(lists, qy, t) ==
    LET filtered == filterStore(filterWh(dedupe(flat(lists)), trim(qy.wh)), trim(qy.store))
        all == sortItems(filtered, trim(qy.sort), t)
    IN  Feed(filtered, all, cursorStart(qy.cursor), clampLimit(qy.limit, <<"1", "2", "0">>),
             [warehouses |-> warehousesOf(all), stores |-> storesOf(all)])

\* ali.ts: the products the affiliate API answers for page_no 1 of size
\* page_size, out of those it holds for the query (none for a size it
\* cannot serve).
ALI_PAGE_MAX == 50
aliFirstPage(held, page_size) ==
    IF page_size = {} \/ val(page_size) < 1 THEN <<>>
    ELSE SubSeq(held, 1, Min(val(page_size), Len(held)))

\* ali.ts, from the products the API holds to the page: the API is asked for
\* the first min(limit + start, 50) products, and the page is cut from them.
feed_ali(held, qy, t) ==
    LET limit    == clampLimit(qy.limit, <<"1", "0", "0">>)
        start    == cursorStart(qy.cursor)
        products == aliFirstPage(held, IF limit = {} THEN {}
                                       ELSE {Min(val(limit) + start, ALI_PAGE_MAX)})
    IN  [filtered |-> products, all |-> products, start |-> start, limit |-> limit,
         page |-> mapSeq(pageOf(products, start, limit),
                         LAMBDA p : mapAliProductToDeal(p, t)),
         nextCursor |-> nextCursorOf(Len(products), start, limit),
         meta |-> [warehouses |-> {}, stores |-> {<<"AliExpress">>}]]

(***************************************************************************)
(* Bounds of the pure-function specifications                              *)
(***************************************************************************)
\* The longest list handed to dedupe.
MaxList == 3

\* All sequences over S of length at most n.
SeqUpTo(S, n) == UNION {[1..k -> S] : k \in 0..n}

\* The variables of the handlers, while a pure function is being applied.
HttpIdleAt(t) ==
    /\ fn = "none" /\ now = t /\ upstream = <<>>
    /\ SHEETS_CACHE = <<>> /\ BANGGOOD_CACHE = <<>> /\ ACCESS_TOKEN = <<>>
    /\ LAST_JSON = <<>> /\ LAST_ETAG = <<>>
    /\ req = <<>> /\ resp = <<>>
HttpIdle == HttpIdleAt(0)

Pending == [done |-> FALSE, out |-> <<>>]
Returned(v) == [done |-> TRUE, out |-> v]

(***************************************************************************)
(* SpecDedupe: dedupe applied to merged lists of Deals, as the handlers    *)
(* would merge them: spreadsheet rows first, then live coupons.            *)
(***************************************************************************)
DedupeLinks ==
    { <<"https:", "/", "/", "x.com", "/", "a">>,
      <<"https:", "/", "/", "x.com", "/", "a", "?", "k=1">>,
      <<"https:", "/", "/", "x.com", "/", "b">> }
DedupeCodes == { <<>>, <<"Z">> }

DedupeRow(link, code) ==
    [name |-> <<"A">>, link |-> link, price |-> <<"5">>, code |-> code,
     wh |-> <<>>, cats |-> <<>>, end |-> NoDate, upd |-> NoDate]
DedupeCoupon(link, code) ==
    [promo_link_standard |-> link, promo_link_short |-> <<>>, only_for |-> <<>>,
     condition |-> <<"5">>, original_price |-> <<>>, coupon_code |-> code,
     warehouse |-> <<>>, coupon_date_end |-> NoDate]

DedupeDeals ==
    {sheetRowDeals(2, DedupeRow(l, c))[1] : l \in DedupeLinks, c \in DedupeCodes}
      \cup {mapCouponToDeal(DedupeCoupon(l, c), <<>>, 0) : l \in DedupeLinks, c \in DedupeCodes}

InitDedupe ==
    /\ call \in [which : {"sheets", "coupons", "search"},
                 items : SeqUpTo(DedupeDeals, MaxList)]
    /\ ret = Pending
    /\ HttpIdle

Dedupe_sheets ==
    /\ call.which = "sheets" /\ ~ret.done
    /\ ret' = Returned(dedupe_sheets(call.items))
    /\ UNCHANGED <<call, httpVars>>

Dedupe_coupons ==
    /\ call.which = "coupons" /\ ~ret.done
    /\ ret' = Returned(dedupe_coupons(call.items))
    /\ UNCHANGED <<call, httpVars>>

Dedupe_search ==
    /\ call.which = "search" /\ ~ret.done
    /\ ret' = Returned(dedupe(call.items))
    /\ UNCHANGED <<call, httpVars>>

NextDedupe == Dedupe_sheets \/ Dedupe_coupons \/ Dedupe_search
SpecDedupe == InitDedupe /\ [][NextDedupe]_vars

\* The identity the specification gives two records: the URL with its query
\* string removed, and the coupon code.
urlCodePair(d) == <<splitFirst(d.url, "?"), d.code>>

\* The records of items that are the first of their (URL, code) pair, in order.
RECURSIVE firstOfEachPair(_, _)
firstOfEachPair(items, i) ==
    IF i > Len(items) THEN <<>>
    ELSE (IF \A j \in 1..(i - 1) : urlCodePair(items[j]) # urlCodePair(items[i])
          THEN <<items[i]>> ELSE <<>>) \o firstOfEachPair(items, i + 1)

\* C6: of the records sharing a (URL without query, coupon code) pair the
\* output of dedupe holds exactly the first, and records with distinct pairs
\* are all kept in their original order.
C6_DedupeByUrlAndCode ==
    ret.done => ret.out = firstOfEachPair(call.items, 1)

(***************************************************************************)
(* SpecPipe: a handler's path from its adapters' lists to the page, for    *)
(* each of the four handlers that filter, sort and paginate in memory.     *)
(* a and b are the entries the handler's two sources hold, in order.       *)
(***************************************************************************)
PipeLink(n) == <<"https:", "/", "/", "x.com", "/", n>>
PipeEntries ==
    { [n |-> "a", price |-> <<>>,    wh |-> <<>>,         code |-> <<"Z">>,
       cats |-> <<>>],
      [n |-> "b", price |-> <<"5">>, wh |-> <<"C", "N">>, code |-> <<>>,
       cats |-> <<"g", ",", " ", "z">>],
      [n |-> "c", price |-> <<"9">>, wh |-> <<"P", "L">>, code |-> <<>>,
       cats |-> <<>>] }

\* An entry as a spreadsheet row and as a Banggood coupon
PipeRow(e) ==
    [name |-> <<e.n>>, link |-> PipeLink(e.n), price |-> e.price, code |-> e.code,
     wh |-> e.wh, cats |-> e.cats, end |-> NoDate, upd |-> NoDate]
PipeCoupon(e) ==
    [promo_link_standard |-> PipeLink(e.n), promo_link_short |-> <<>>, only_for |-> <<>>,
     condition |-> e.price, original_price |-> <<>>, coupon_code |-> e.code,
     warehouse |-> e.wh, coupon_date_end |-> NoDate]

NoQuery == Query(<<>>, <<>>, <<>>, <<>>, <<>>, <<>>, <<>>, <<>>, <<>>)
PagingQueries ==
    {[NoQuery EXCEPT !.limit = l, !.cursor = c] :
        l \in {<<>>, <<"1">>, <<"2">>},
        c \in {<<>>, <<"1">>, <<"2">>, <<"-", "2">>, <<"x">>}}
PriceQueries ==
    {[NoQuery EXCEPT !.minPrice = lo, !.maxPrice = hi] :
        lo \in {<<>>, <<"9">>, <<"x">>},
        hi \in {<<>>, <<"5">>, <<"-", "1">>}}
SortQueries ==
    {[NoQuery EXCEPT !.sort = k] : k \in {<<"price_asc">>, <<"price_desc">>}}
LimitQueries ==
    {[NoQuery EXCEPT !.limit = l] :
        l \in {<<"x">>, <<"0">>, <<"-", "1">>, <<"9", "9", "9">>}}
PipeQueries == PagingQueries \cup PriceQueries \cup SortQueries \cup LimitQueries

InitPipe ==
    /\ call \in {c \in [which : {"sheets", "coupons", "bg", "search"},
                        a : SeqUpTo(PipeEntries, MaxList),
                        b : SeqUpTo(PipeEntries, MaxList),
                        qy : PipeQueries] : Len(c.a) + Len(c.b) <= MaxList}
    /\ ret = Pending
    /\ HttpIdle

\* coupons.ts (first handler): fetchSheetsDeals' result for the rows of two
\* sheets, then the handler's filters, sort and page
sheetsMeta(items) ==
    [warehouses |-> warehousesOf(items),
     stores |-> {items[i].store : i \in 1..Len(items)}]

pipe_sheets(a, b, qy, t) ==
    LET out == flat(mapSeq(a, LAMBDA e : sheetRowDeals(2, PipeRow(e))))
                 \o flat(mapSeq(b, LAMBDA e : sheetRowDeals(3, PipeRow(e))))
    IN  feed_sheets(dedupe_sheets(out), sheetsMeta(out), qy, t)

\* coupons.ts (second handler): spreadsheet rows, then live coupons
pipe_coupons(a, b, qy, t) ==
    feed_coupons(<< dedupe_coupons(flat(mapSeq(a, LAMBDA e : sheetRowDeals_coupons(PipeRow(e), t)))),
                    mapSeq(b, LAMBDA e : mapCouponToDeal_coupons(PipeCoupon(e), t)) >>, qy, t)

\* bg.ts: the coupons of the first and of the second page
pipe_bg(a, b, qy, t) ==
    feed_bg(mapSeq(a \o b, LAMBDA e : mapCouponToDeal(PipeCoupon(e), <<>>, t)), qy, t)

\* search.ts: the items of the coupons endpoint, then those of the bg endpoint
pipe_search(a, b, qy, t) ==
    feed_search(<< flat(mapSeq(a, LAMBDA e : sheetRowDeals(2, PipeRow(e)))),
                   mapSeq(b, LAMBDA e : mapCouponToDeal(PipeCoupon(e), <<>>, t)) >>, qy, t)

Pipe_sheets ==
    /\ call.which = "sheets" /\ ~ret.done
    /\ ret' = Returned(pipe_sheets(call.a, call.b, call.qy, now))
    /\ UNCHANGED <<call, httpVars>>

Pipe_coupons ==
    /\ call.which = "coupons" /\ ~ret.done
    /\ ret' = Returned(pipe_coupons(call.a, call.b, call.qy, now))
    /\ UNCHANGED <<call, httpVars>>

Pipe_bg ==
    /\ call.which = "bg" /\ ~ret.done
    /\ ret' = Returned(pipe_bg(call.a, call.b, call.qy, now))
    /\ UNCHANGED <<call, httpVars>>

Pipe_search ==
    /\ call.which = "search" /\ ~ret.done
    /\ ret' = Returned(pipe_search(call.a, call.b, call.qy, now))
    /\ UNCHANGED <<call, httpVars>>

NextPipe == Pipe_sheets \/ Pipe_coupons \/ Pipe_bg \/ Pipe_search
SpecPipe == InitPipe /\ [][NextPipe]_vars

\* The positions first .. last (counted from 0) of a list that exist
positions(items, first, last) ==
    SubSeq(items, Max(first, 0) + 1, Min(last, Len(items) - 1) + 1)

\* C4: nextCursor is the string of offset + limit exactly when
\* offset + limit < total and null otherwise, and the page is the items at
\* positions offset .. offset + limit - 1 of the filtered, sorted list.
C4_PageAtOffset ==
    ret.done /\ ret.out.limit # {} =>
        LET offset == cursorStart(call.qy.cursor)
            limit  == val(ret.out.limit)
            total  == Len(ret.out.filtered)
        IN  /\ ret.out.nextCursor =
                 (IF offset + limit < total THEN String(offset + limit) ELSE <<>>)
            /\ ret.out.page = positions(ret.out.all, offset, offset + limit - 1)

\* What handler `which` computes for the lists a, b and the query qy
pipe(which, a, b, qy, t) ==
    CASE which = "sheets"  -> pipe_sheets(a, b, qy, t)
      [] which = "coupons" -> pipe_coupons(a, b, qy, t)
      [] which = "bg"      -> pipe_bg(a, b, qy, t)
      [] which = "search"  -> pipe_search(a, b, qy, t)

Range(items) == {items[i] : i \in 1..Len(items)}
inList(d, items) == \E i \in 1..Len(items) : items[i] = d
countOf(d, items) == Cardinality({i \in 1..Len(items) : items[i] = d})
isPermutation(xs, ys) ==
    /\ Len(xs) = Len(ys)
    /\ \A i \in 1..Len(xs) : countOf(xs[i], xs) = countOf(xs[i], ys)

\* The endpoints that read minPrice and maxPrice
AcceptsPriceRange == call.which \in {"coupons", "bg"}
\* The deals the request would match if it did not carry parameter k
otherwiseMatching(k) ==
    pipe(call.which, call.a, call.b, [call.qy EXCEPT ![k] = <<>>], now).all

pricedBeforeUnpriced(all) ==
    \A i, j \in 1..Len(all) : all[i].price = {} /\ all[j].price # {} => j < i
unpricedBeforePriced(all) ==
    \A i, j \in 1..Len(all) : all[i].price = {} /\ all[j].price # {} => i < j
\* dir = 1: non-decreasing price; dir = -1: non-increasing price
pricesOrdered(all, dir) ==
    \A i, j \in 1..Len(all) :
        i < j /\ all[i].price # {} /\ all[j].price # {}
            => dir * val(all[i].price) <= dir * val(all[j].price)

\* The handlers that sort by price on request, and the sort they were asked
SortsByPrice == call.which \in {"sheets", "bg", "search"}

\* C8 (as stated): price_asc gives non-decreasing prices with the unpriced
\* deals last, price_desc non-increasing prices with the unpriced deals first,
\* and the output is a permutation of the input.
C8_UnpricedFirstWhenDescending ==
    ret.done /\ SortsByPrice =>
        /\ call.qy.sort = <<"price_asc">> =>
             /\ pricesOrdered(ret.out.all, 1) /\ pricedBeforeUnpriced(ret.out.all)
             /\ isPermutation(ret.out.all, ret.out.filtered)
        /\ call.qy.sort = <<"price_desc">> =>
             /\ pricesOrdered(ret.out.all, -1) /\ unpricedBeforePriced(ret.out.all)
             /\ isPermutation(ret.out.all, ret.out.filtered)

\* C8 (amended): price_asc gives non-decreasing prices, price_desc
\* non-increasing prices, in both the unpriced deals come after every priced
\* deal, and the output is a permutation of the input.
C8_UnpricedLastBothWays ==
    ret.done /\ SortsByPrice =>
        /\ call.qy.sort = <<"price_asc">> =>
             /\ pricesOrdered(ret.out.all, 1) /\ pricedBeforeUnpriced(ret.out.all)
             /\ isPermutation(ret.out.all, ret.out.filtered)
        /\ call.qy.sort = <<"price_desc">> =>
             /\ pricesOrdered(ret.out.all, -1) /\ pricedBeforeUnpriced(ret.out.all)
             /\ isPermutation(ret.out.all, ret.out.filtered)

\* A price_desc request has sorted a list that came with an unpriced deal
\* ahead of two deals of rising price.
C8_Witness ==
    /\ ret.done /\ SortsByPrice /\ call.qy.sort = <<"price_desc">>
    /\ Len(ret.out.filtered) = 3
    /\ ret.out.filtered[1].price = {}
    /\ ret.out.filtered[2].price # {} /\ ret.out.filtered[3].price # {}
    /\ val(ret.out.filtered[2].price) < val(ret.out.filtered[3].price)

(***************************************************************************)
(* SpecPaging: a client walks a feed page by page, each request carrying   *)
(* the nextCursor of the answer before, until nextCursor is null.  The     *)
(* sources hold the entries a and b throughout; a millisecond passes       *)
(* between two requests.                                                   *)
(***************************************************************************)
PipeProduct(e) ==
    [product_title |-> <<e.n>>, subject |-> <<>>, promotion_link |-> PipeLink(e.n),
     product_detail_url |-> <<>>, product_id |-> <<e.n>>,
     target_sale_price |-> e.price, target_original_price |-> <<>>,
     ship_from_country |-> e.wh]

InitPaging ==
    /\ call \in {c \in [which : {"sheets", "ali", "search"},
                        a : SeqUpTo(PipeEntries, MaxList),
                        b : SeqUpTo(PipeEntries, MaxList),
                        limit : {<<"1">>, <<"2">>}] : Len(c.a) + Len(c.b) <= MaxList}
    /\ ret = [done |-> FALSE, out |-> [cursor |-> <<>>, pages |-> <<>>]]
    /\ HttpIdle

pagingQuery == [NoQuery EXCEPT !.limit = call.limit, !.cursor = ret.out.cursor]

\* The client takes the answer: its page, and its nextCursor for the next request
Paged(feed) ==
    /\ ret' = [done |-> feed.nextCursor = <<>>,
               out |-> [cursor |-> feed.nextCursor,
                        pages |-> Append(ret.out.pages, feed.page)]]
    /\ now' = now + 1
    /\ UNCHANGED <<call, fn, upstream, SHEETS_CACHE, BANGGOOD_CACHE, ACCESS_TOKEN,
                   LAST_JSON, LAST_ETAG, req, resp>>

\* search.ts: what the three endpoints answer to fetchItems, each asked for
\* `limit` items and no cursor; the ali endpoint has no credentials here and
\* answers 500, which fetchItems turns into no items.
searchLists(a, b, qy, t) ==
    LET sub == [NoQuery EXCEPT !.q = trim(qy.q), !.wh = trim(qy.wh),
                               !.limit = String(val(clampLimit(qy.limit, <<"1", "2", "0">>)))]
    IN  << pipe_sheets(a, <<>>, sub, t).page, <<>>,
           pipe_bg(b, <<>>, [sub EXCEPT !.wh = <<>>], t).page >>

Page_sheets ==
    /\ call.which = "sheets" /\ ~ret.done
    /\ Paged(pipe_sheets(call.a, call.b, pagingQuery, now))

Page_ali ==
    /\ call.which = "ali" /\ ~ret.done
    /\ Paged(feed_ali(mapSeq(call.a \o call.b, PipeProduct), pagingQuery, now))

Page_search ==
    /\ call.which = "search" /\ ~ret.done
    /\ Paged(feed_search(searchLists(call.a, call.b, pagingQuery, now), pagingQuery, now))

NextPaging == Page_sheets \/ Page_ali \/ Page_search
SpecPaging == InitPaging /\ [][NextPaging]_vars

\* The deals the sources hold that match the (filterless) walk
held ==
    CASE call.which = "sheets" -> pipe_sheets(call.a, call.b, NoQuery, 0).all
      [] call.which = "ali" ->
            mapSeq(call.a \o call.b, LAMBDA e : mapAliProductToDeal(PipeProduct(e), 0))
      [] call.which = "search" ->
            dedupe(flat(<< pipe_sheets(call.a, <<>>, NoQuery, 0).all,
                           pipe_bg(call.b, <<>>, NoQuery, 0).all >>))

\* A Deal but for the time it was mapped at
sameDeal(d, e) == [d EXCEPT !.updated = {}] = [e EXCEPT !.updated = {}]
returnedTimes(d) ==
    Cardinality({i \in 1..Len(flat(ret.out.pages)) : sameDeal(flat(ret.out.pages)[i], d)})
heldTimes(d) == Cardinality({i \in 1..Len(held) : sameDeal(held[i], d)})

\* C5: following nextCursor from the first page, the pages are disjoint and
\* together hold every matching item exactly once; nextCursor is null only
\* when every item the source holds has been returned.
C5_PagesCoverEveryItemOnce ==
    /\ \A i \in 1..Len(held) : returnedTimes(held[i]) <= heldTimes(held[i])
    /\ ret.done => \A i \in 1..Len(held) : returnedTimes(held[i]) = heldTimes(held[i])

(***************************************************************************)
(* SpecAdapter: each adapter's mapping applied to one raw item of its      *)
(* source, fetched at time `now`.                                          *)
(***************************************************************************)
AdapterNames == {<<>>, <<"A">>}
AdapterLinks == { <<>>, <<"n", "/", "a">>, <<"http:", "/", "/", "x.com", "/", "a">> }
AdapterEnds  == {NoDate, DateAt(1), DateAt(3)}

AdapterRows ==
    {[name |-> n, link |-> l, price |-> <<"5">>, code |-> <<>>, wh |-> <<>>,
      cats |-> <<>>, end |-> e, upd |-> NoDate] : n \in AdapterNames, l \in AdapterLinks, e \in AdapterEnds}
AdapterCoupons ==
    {[promo_link_standard |-> l, promo_link_short |-> <<>>, only_for |-> n,
      condition |-> <<"5">>, original_price |-> <<>>, coupon_code |-> <<"Z">>,
      warehouse |-> <<>>, coupon_date_end |-> e] :
        n \in AdapterNames, l \in AdapterLinks, e \in AdapterEnds}
AdapterProducts ==
    {[product_title |-> n, subject |-> <<>>, promotion_link |-> l,
      product_detail_url |-> d, product_id |-> <<"1">>,
      target_sale_price |-> <<"5">>, target_original_price |-> <<>>,
      ship_from_country |-> <<>>] :
        n \in AdapterNames, l \in AdapterLinks, d \in AdapterLinks}

InitAdapter ==
    /\ call \in ([which : {"sheets", "sheets_coupons"}, raw : AdapterRows]
                   \cup [which : {"bg", "bg_coupons"}, raw : AdapterCoupons]
                   \cup [which : {"ali"}, raw : AdapterProducts])
    /\ ret = Pending
    /\ HttpIdleAt(2)

Adapt_sheets ==
    /\ call.which = "sheets" /\ ~ret.done
    /\ ret' = Returned(sheetRowDeals(2, call.raw))
    /\ UNCHANGED <<call, httpVars>>

Adapt_sheets_coupons ==
    /\ call.which = "sheets_coupons" /\ ~ret.done
    /\ ret' = Returned(sheetRowDeals_coupons(call.raw, now))
    /\ UNCHANGED <<call, httpVars>>

Adapt_bg ==
    /\ call.which = "bg" /\ ~ret.done
    /\ ret' = Returned(<<mapCouponToDeal(call.raw, <<>>, now)>>)
    /\ UNCHANGED <<call, httpVars>>

Adapt_bg_coupons ==
    /\ call.which = "bg_coupons" /\ ~ret.done
    /\ ret' = Returned(<<mapCouponToDeal_coupons(call.raw, now)>>)
    /\ UNCHANGED <<call, httpVars>>

Adapt_ali ==
    /\ call.which = "ali" /\ ~ret.done
    /\ ret' = Returned(<<mapAliProductToDeal(call.raw, now)>>)
    /\ UNCHANGED <<call, httpVars>>

NextAdapter == Adapt_sheets \/ Adapt_sheets_coupons \/ Adapt_bg \/ Adapt_bg_coupons \/ Adapt_ali
SpecAdapter == InitAdapter /\ [][NextAdapter]_vars

\* C10: every Deal an adapter emits has a title, a url that is an outbound
\* http(s) link, and no end earlier than the time of the fetch.
C10_EmittedDealsAreWellFormed ==
    ret.done =>
        \A i \in 1..Len(ret.out) :
            /\ ret.out[i].title # <<>>
            /\ isHttpUrl(ret.out[i].url)
            /\ ret.out[i].end = {} \/ val(ret.out[i].end) >= now

(***************************************************************************)
(* The handlers as they run in a lambda instance.  upstream is the world   *)
(* outside: whether the environment holds the credentials, which remote    *)
(* call fails at present ("auth": the sign-in or token call, "fetch": the  *)
(* data call), and the entries the sources hold.                           *)
(***************************************************************************)
SHEETS_TTL_MS == 300000
BANGGOOD_TTL_MS == 600000
TOKEN_TTL == 3000000
PAGE_CAP == 5

Entry(n) == CHOOSE e \in PipeEntries : e.n = n
HeldEntries == <<Entry("b"), Entry("c")>>

\* What an adapter call comes to: a value, or a throw, and the caches after it
\* calls are the remote calls the adapter call has made
Fetched(items, cache) ==
    [threw |-> FALSE, error |-> <<>>, items |-> items, cache |-> cache, calls |-> <<>>]
Failed(error, cache) ==
    [threw |-> TRUE, error |-> error, items |-> <<>>, cache |-> cache, calls |-> <<>>]
Calling(calls, got) == [got EXCEPT !.calls = calls]
\* An entry is fresh while it is younger than the TTL
fresh_inclusive(cache, ttl, t) == cache # <<>> /\ t - cache[1].ts <= ttl
fresh(cache, ttl, t) == cache # <<>> /\ t - cache[1].ts < ttl

\* coupons.ts (first handler) fetchSheetsDeals: no credentials give an empty
\* feed, a fresh cache is served, a failed sign-in throws, a failed read of a
\* sheet skips the sheet; what was read is cached.
fetchSheetsDeals_sheets(cache, up, t) ==
    IF ~up.creds THEN Fetched([items |-> <<>>, meta |-> sheetsMeta(<<>>)], cache)
    ELSE IF fresh(cache, SHEETS_TTL_MS, t)
         THEN Fetched([items |-> cache[1].items, meta |-> cache[1].meta], cache)
    ELSE IF up.fault = "auth"
         THEN Calling(<<"authorize">>, Failed(<<"invalid_grant">>, cache))
    ELSE LET out   == IF up.fault = "fetch" THEN <<>>
                      ELSE flat(mapSeq(HeldEntries, LAMBDA e : sheetRowDeals(2, PipeRow(e))))
             items == dedupe_sheets(out)
         IN  Calling(<<"authorize">> \o [k \in 1..Len(SHEETS) |-> "get"],
                     Fetched([items |-> items, meta |-> sheetsMeta(out)],
                             <<[items |-> items, meta |-> sheetsMeta(out), ts |-> t]>>))

\* coupons.ts (second handler) fetchSheetsDeals: as above, but a failed read
\* throws too
fetchSheetsDeals(cache, up, t) ==
    IF ~up.creds THEN Fetched(<<>>, cache)
    ELSE IF fresh(cache, SHEETS_TTL_MS, t) THEN Fetched(cache[1].items, cache)
    ELSE IF up.fault = "auth"
         THEN Calling(<<"authorize">>, Failed(<<"invalid_grant">>, cache))
    ELSE IF up.fault = "fetch"
         THEN Calling(<<"authorize", "batchGet">>, Failed(<<"timeout">>, cache))
    ELSE LET items == dedupe_coupons(flat(mapSeq(HeldEntries,
                          LAMBDA e : sheetRowDeals_coupons(PipeRow(e), t))))
         IN  Calling(<<"authorize", "batchGet", "batchGet">>,
                     Fetched(items, <<[items |-> items, ts |-> t]>>))

\* The coupon API's answer for a page: UpstreamPageSize coupons a page
UpstreamPageSize == 1
couponPage(coupons, page) ==
    [coupon_list |-> SubSeq(coupons, Min((page - 1) * UpstreamPageSize + 1, Len(coupons) + 1),
                            Min(page * UpstreamPageSize, Len(coupons))),
     page_total  |-> (Len(coupons) + UpstreamPageSize - 1) \div UpstreamPageSize]

\* while (page <= pages && page <= pageDepth) { ...; pages = res.page_total || page;
\* push; page++ }; depth {} is the loop without the depth test
RECURSIVE couponLoop(_, _, _, _, _)
couponLoop(coupons, page, pages, depth, acc) ==
    IF page <= pages /\ (depth = {} \/ page <= val(depth))
    THEN LET res == couponPage(coupons, page)
         IN  couponLoop(coupons, page + 1,
                        IF res.page_total # 0 THEN res.page_total ELSE page,
                        depth, acc \o res.coupon_list)
    ELSE acc

\* coupons.ts (second handler) fetchBanggoodDeals
fetchBanggoodDeals(cache, up, t) ==
    IF fresh(cache, BANGGOOD_TTL_MS, t) THEN Fetched(cache[1].items, cache)
    ELSE IF ~up.creds THEN Fetched(<<>>, cache)
    ELSE IF up.fault = "auth" THEN Failed(<<"timeout">>, cache)
    ELSE IF up.fault = "fetch" THEN Failed(<<"timeout">>, cache)
    ELSE LET all == mapSeq(couponLoop(mapSeq(HeldEntries, PipeCoupon), 1, 1, {}, <<>>),
                           LAMBDA c : mapCouponToDeal_coupons(c, t))
         IN  Fetched(all, <<[items |-> all, ts |-> t]>>)

\* getAccessToken were the entry dropped before the request
getAccessToken_dropFirst(cache, up, t) ==
    IF ~up.creds THEN Failed(<<"BG API env hiányzik">>, cache)
    ELSE IF fresh(cache, TOKEN_TTL, t) THEN Fetched(cache[1].token, cache)
    ELSE IF up.fault \in {"auth", "empty"}
         THEN Calling(<<"getAccessToken">>, Failed(<<"timeout">>, <<>>))
    ELSE Calling(<<"getAccessToken">>,
                 Fetched(<<"token">>, <<[token |-> <<"token">>, ts |-> t]>>))

\* bg.ts getAccessToken: the token, or a throw, and the token cache after it
getAccessToken(cache, up, t) ==
    IF ~up.creds THEN Failed(<<"BG API env hiányzik">>, cache)
    ELSE IF fresh(cache, TOKEN_TTL, t) THEN Fetched(cache[1].token, cache)
    ELSE IF up.fault = "auth"
         THEN Calling(<<"getAccessToken">>, Failed(<<"timeout">>, cache))
    ELSE IF up.fault = "empty"
         THEN Calling(<<"getAccessToken">>, Failed(<<"Nem kaptunk access_token-t">>, cache))
    ELSE Calling(<<"getAccessToken">>,
                 Fetched(<<"token">>, <<[token |-> <<"token">>, ts |-> t]>>))

\* What the try block of a handler comes to: the feed to answer with, or a
\* throw, and the caches as the run leaves them.
Ran(feed, sc, bc, at) ==
    [threw |-> FALSE, error |-> <<>>, feed |-> <<feed>>,
     SHEETS_CACHE |-> sc, BANGGOOD_CACHE |-> bc, ACCESS_TOKEN |-> at]
Threw(error, sc, bc, at) ==
    [threw |-> TRUE, error |-> error, feed |-> <<>>,
     SHEETS_CACHE |-> sc, BANGGOOD_CACHE |-> bc, ACCESS_TOKEN |-> at]

\* coupons.ts (first handler), the try block
run_sheets(sc, bc, at, up, qy, t) ==
    LET got == fetchSheetsDeals_sheets(sc, up, t)
    IN  IF got.threw THEN Threw(got.error, got.cache, bc, at)
        ELSE Ran(feed_sheets(got.items.items, got.items.meta, qy, t), got.cache, bc, at)

\* coupons.ts (second handler), the try block: a rejected adapter promise is
\* an empty list
run_coupons(sc, bc, at, up, qy, t) ==
    LET sheets == fetchSheetsDeals(sc, up, t)
        bg     == fetchBanggoodDeals(bc, up, t)
    IN  Ran(feed_coupons(<<sheets.items, bg.items>>, qy, t), sheets.cache, bg.cache, at)

\* bg.ts, the try block, for a request that asks for no catalog: the token,
\* then up to three pages of coupons
run_bg(sc, bc, at, up, qy, t) ==
    LET token == getAccessToken(at, up, t)
    IN  IF token.threw THEN Threw(token.error, sc, bc, token.cache)
        ELSE IF up.fault = "fetch" THEN Threw(<<"timeout">>, sc, bc, token.cache)
        ELSE Ran(feed_bg(mapSeq(couponLoop(mapSeq(HeldEntries, PipeCoupon), 1, 1,
                                           {Max(1, Min(PAGE_CAP, 3))}, <<>>),
                                LAMBDA c : mapCouponToDeal(c, <<>>, t)), qy, t),
                 sc, bc, token.cache)

\* ali.ts, the try block
run_ali(sc, bc, at, up, qy, t) ==
    IF ~up.creds THEN Threw(<<"AliExpress API env">>, sc, bc, at)
    ELSE IF up.fault # "none" THEN Threw(<<"timeout">>, sc, bc, at)
    ELSE Ran(feed_ali(mapSeq(HeldEntries, PipeProduct), qy, t), sc, bc, at)

\* search.ts fetchItems: the items of an endpoint's answer, none when the
\* endpoint answers 500.  The endpoints run in instances of their own, taken
\* here without caches or snapshot.
fetchItems(ran) == IF ran.threw THEN <<>> ELSE ran.feed[1].page

\* search.ts, the try block
run_search(sc, bc, at, up, qy, t) ==
    LET sub == [NoQuery EXCEPT !.q = trim(qy.q), !.wh = trim(qy.wh),
                               !.limit = IF clampLimit(qy.limit, <<"1", "2", "0">>) = {}
                                         THEN <<"NaN">>
                                         ELSE String(val(clampLimit(qy.limit, <<"1", "2", "0">>)))]
        lists == << fetchItems(run_sheets(<<>>, <<>>, <<>>, up, sub, t)),
                    fetchItems(run_ali(<<>>, <<>>, <<>>, up, [sub EXCEPT !.wh = <<>>], t)),
                    fetchItems(run_bg(<<>>, <<>>, <<>>, up, [sub EXCEPT !.wh = <<>>], t)) >>
    IN  Ran(feed_search(lists, qy, t), sc, bc, at)

\* The payload of a feed at time t; the second coupons handler sends no meta
payloadOf(feed, t) ==
    [count |-> Len(feed.all), items |-> feed.page, nextCursor |-> feed.nextCursor,
     updatedAt |-> t, meta |-> feed.meta]
payloadOf_coupons(feed, t) ==
    [count |-> Len(feed.all), items |-> feed.page, nextCursor |-> feed.nextCursor,
     updatedAt |-> t]

\* etagOf(json) = md5(json), of the payload's JSON text
etagOf(payload) == [md5 |-> payload]

Response(statusCode, etag, fallback, cacheControl, body) ==
    [statusCode |-> statusCode, ETag |-> etag, XFallback |-> fallback,
     CacheControl |-> cacheControl, body |-> body]

\* The end of a handler had its catch block no snapshot to fall back on
Respond_noSnapshot(ran, payload, ifNoneMatch, maxAge) ==
    /\ SHEETS_CACHE' = ran.SHEETS_CACHE
    /\ BANGGOOD_CACHE' = ran.BANGGOOD_CACHE
    /\ ACCESS_TOKEN' = ran.ACCESS_TOKEN
    /\ IF ~ran.threw
       THEN IF ifNoneMatch # {} /\ ifNoneMatch = {etagOf(payload)}
            THEN /\ resp' = Response(304, {etagOf(payload)}, FALSE, maxAge, <<>>)
                 /\ UNCHANGED <<LAST_JSON, LAST_ETAG>>
            ELSE /\ LAST_JSON' = <<payload>>
                 /\ LAST_ETAG' = {etagOf(payload)}
                 /\ resp' = Response(200, {etagOf(payload)}, FALSE, maxAge, <<payload>>)
       ELSE /\ UNCHANGED <<LAST_JSON, LAST_ETAG>>
            /\ resp' = Response(500, {}, FALSE, 0,
                                <<[error |-> IF ran.error # <<>> THEN ran.error
                                             ELSE <<"Server error">>]>>)

\* The end of a handler had it not looked at If-None-Match
Respond_unconditional(ran, payload, ifNoneMatch, maxAge) ==
    /\ SHEETS_CACHE' = ran.SHEETS_CACHE
    /\ BANGGOOD_CACHE' = ran.BANGGOOD_CACHE
    /\ ACCESS_TOKEN' = ran.ACCESS_TOKEN
    /\ IF ~ran.threw
       THEN /\ LAST_JSON' = <<payload>>
            /\ LAST_ETAG' = {etagOf(payload)}
            /\ resp' = Response(200, {etagOf(payload)}, FALSE, maxAge, <<payload>>)
       ELSE /\ UNCHANGED <<LAST_JSON, LAST_ETAG>>
            /\ IF LAST_JSON # <<>>
               THEN resp' = Response(200, LAST_ETAG, TRUE, 60, LAST_JSON)
               ELSE resp' = Response(500, {}, FALSE, 0,
                                     <<[error |-> IF ran.error # <<>> THEN ran.error
                                                  ELSE <<"Server error">>]>>)

\* The end of a handler had the snapshot been dropped once served
Respond_dropsServed(ran, payload, ifNoneMatch, maxAge) ==
    /\ SHEETS_CACHE' = ran.SHEETS_CACHE
    /\ BANGGOOD_CACHE' = ran.BANGGOOD_CACHE
    /\ ACCESS_TOKEN' = ran.ACCESS_TOKEN
    /\ IF ~ran.threw
       THEN IF ifNoneMatch # {} /\ ifNoneMatch = {etagOf(payload)}
            THEN /\ resp' = Response(304, {etagOf(payload)}, FALSE, maxAge, <<>>)
                 /\ UNCHANGED <<LAST_JSON, LAST_ETAG>>
            ELSE /\ LAST_JSON' = <<payload>>
                 /\ LAST_ETAG' = {etagOf(payload)}
                 /\ resp' = Response(200, {etagOf(payload)}, FALSE, maxAge, <<payload>>)
       ELSE IF LAST_JSON # <<>>
            THEN /\ resp' = Response(200, LAST_ETAG, TRUE, 60, LAST_JSON)
                 /\ LAST_JSON' = <<>> /\ LAST_ETAG' = {}
            ELSE /\ UNCHANGED <<LAST_JSON, LAST_ETAG>>
                 /\ resp' = Response(500, {}, FALSE, 0,
                                     <<[error |-> IF ran.error # <<>> THEN ran.error
                                                  ELSE <<"Server error">>]>>)

\* The end of a handler had something been awaited between the two
\* assignments of the snapshot
Respond_bodyFirst(ran, payload, ifNoneMatch, maxAge) ==
    /\ SHEETS_CACHE' = ran.SHEETS_CACHE
    /\ BANGGOOD_CACHE' = ran.BANGGOOD_CACHE
    /\ ACCESS_TOKEN' = ran.ACCESS_TOKEN
    /\ IF ~ran.threw
       THEN IF ifNoneMatch # {} /\ ifNoneMatch = {etagOf(payload)}
            THEN /\ resp' = Response(304, {etagOf(payload)}, FALSE, maxAge, <<>>)
                 /\ UNCHANGED <<LAST_JSON, LAST_ETAG>>
            ELSE /\ LAST_JSON' = <<payload>>
                 /\ UNCHANGED LAST_ETAG
                 /\ resp' = Response(200, {etagOf(payload)}, FALSE, maxAge, <<payload>>)
       ELSE /\ UNCHANGED <<LAST_JSON, LAST_ETAG>>
            /\ IF LAST_JSON # <<>>
               THEN resp' = Response(200, LAST_ETAG, TRUE, 60, LAST_JSON)
               ELSE resp' = Response(500, {}, FALSE, 0,
                                     <<[error |-> IF ran.error # <<>> THEN ran.error
                                                  ELSE <<"Server error">>]>>)

\* The end of every handler: 304 for a matching If-None-Match, else the
\* payload, which is retained; on a throw the retained snapshot, else 500.
\* ran is what the try block came to up to the payload.
Respond(ran, payload, ifNoneMatch, maxAge) ==
    /\ SHEETS_CACHE' = ran.SHEETS_CACHE
    /\ BANGGOOD_CACHE' = ran.BANGGOOD_CACHE
    /\ ACCESS_TOKEN' = ran.ACCESS_TOKEN
    /\ IF ~ran.threw
       THEN IF ifNoneMatch # {} /\ ifNoneMatch = {etagOf(payload)}
            THEN /\ resp' = Response(304, {etagOf(payload)}, FALSE, maxAge, <<>>)
                 /\ UNCHANGED <<LAST_JSON, LAST_ETAG>>
            ELSE /\ LAST_JSON' = <<payload>>
                 /\ LAST_ETAG' = {etagOf(payload)}
                 /\ resp' = Response(200, {etagOf(payload)}, FALSE, maxAge, <<payload>>)
       ELSE /\ UNCHANGED <<LAST_JSON, LAST_ETAG>>
            /\ IF LAST_JSON # <<>>
               THEN resp' = Response(200, LAST_ETAG, TRUE, 60, LAST_JSON)
               ELSE resp' = Response(500, {}, FALSE, 0,
                                     <<[error |-> IF ran.error # <<>> THEN ran.error
                                                  ELSE <<"Server error">>]>>)

(***************************************************************************)
(* Spec: one lambda instance answering requests, the clock running and the *)
(* upstream services failing and recovering between them.                  *)
(***************************************************************************)
MaxClock == 1
TickSteps == {1, SHEETS_TTL_MS}
Handlers == {"sheets", "coupons", "bg", "ali", "search"}
HttpQueries == {NoQuery, [NoQuery EXCEPT !.limit = <<"1">>]}
Faults == {"none", "auth", "fetch"}

\* An ETag no answer of the instance carries
StaleETag == etagOf([error |-> <<"stale">>])
\* What a client may send as If-None-Match: nothing, the ETag of the answer
\* before, or an ETag from elsewhere
IfNoneMatchChoices ==
    {{}, {StaleETag}} \cup (IF resp # <<>> /\ resp.ETag # {} THEN {resp.ETag} ELSE {})

Init ==
    /\ call = <<>> /\ ret = <<>>
    /\ fn \in Handlers
    /\ now = 0
    /\ upstream \in [creds : BOOLEAN, fault : {"none"}]
    /\ SHEETS_CACHE = <<>> /\ BANGGOOD_CACHE = <<>> /\ ACCESS_TOKEN = <<>>
    /\ LAST_JSON = <<>> /\ LAST_ETAG = {}
    /\ req = <<>> /\ resp = <<>>

\* A request with query qy and If-None-Match h reaches the handler, whose
\* try block comes to ran
Handle(ran, withMeta, qy, h, maxAge) ==
    /\ req' = [qy |-> qy, ifNoneMatch |-> h, at |-> now, world |-> upstream]
    /\ \E payload \in (IF ran.threw THEN {<<>>}
                       ELSE IF withMeta THEN {payloadOf(ran.feed[1], now)}
                       ELSE {payloadOf_coupons(ran.feed[1], now)}) :
           Respond(ran, payload, h, maxAge)
    /\ UNCHANGED <<call, ret, fn, now, upstream>>

Handler_sheets ==
    /\ fn = "sheets"
    /\ \E qy \in HttpQueries, h \in IfNoneMatchChoices :
       \E ran \in {run_sheets(SHEETS_CACHE, BANGGOOD_CACHE, ACCESS_TOKEN, upstream, qy, now)} :
           Handle(ran, TRUE, qy, h, 300)

Handler_coupons ==
    /\ fn = "coupons"
    /\ \E qy \in HttpQueries, h \in IfNoneMatchChoices :
       \E ran \in {run_coupons(SHEETS_CACHE, BANGGOOD_CACHE, ACCESS_TOKEN, upstream, qy, now)} :
           Handle(ran, FALSE, qy, h, 600)

Handler_bg ==
    /\ fn = "bg"
    /\ \E qy \in HttpQueries, h \in IfNoneMatchChoices :
       \E ran \in {run_bg(SHEETS_CACHE, BANGGOOD_CACHE, ACCESS_TOKEN, upstream, qy, now)} :
           Handle(ran, TRUE, qy, h, 180)

Handler_ali ==
    /\ fn = "ali"
    /\ \E qy \in HttpQueries, h \in IfNoneMatchChoices :
       \E ran \in {run_ali(SHEETS_CACHE, BANGGOOD_CACHE, ACCESS_TOKEN, upstream, qy, now)} :
           Handle(ran, TRUE, qy, h, 180)

Handler_search ==
    /\ fn = "search"
    /\ \E qy \in HttpQueries, h \in IfNoneMatchChoices :
       \E ran \in {run_search(SHEETS_CACHE, BANGGOOD_CACHE, ACCESS_TOKEN, upstream, qy, now)} :
           Handle(ran, TRUE, qy, h, 180)

\* Time passes
Tick ==
    /\ now < MaxClock
    /\ \E d \in TickSteps : now' = now + d
    /\ UNCHANGED <<call, ret, fn, upstream, SHEETS_CACHE, BANGGOOD_CACHE, ACCESS_TOKEN,
                   LAST_JSON, LAST_ETAG, req, resp>>

\* An upstream service starts or stops failing
Fault ==
    /\ \E f \in Faults \ {upstream.fault} : upstream' = [upstream EXCEPT !.fault = f]
    /\ UNCHANGED <<call, ret, fn, now, SHEETS_CACHE, BANGGOOD_CACHE, ACCESS_TOKEN,
                   LAST_JSON, LAST_ETAG, req, resp>>

Next ==
    \/ Handler_sheets \/ Handler_coupons \/ Handler_bg \/ Handler_ali \/ Handler_search
    \/ Tick \/ Fault
Spec == Init /\ [][Next]_vars

\* A step in which the instance answers a request: the clock and the world
\* stand still
IsRequest == now' = now /\ upstream' = upstream

\* What the try block of the instance's handler comes to for the request
\* being answered in this step
tryBlock ==
    CASE fn = "sheets"  -> run_sheets(SHEETS_CACHE, BANGGOOD_CACHE, ACCESS_TOKEN, upstream, req'.qy, now)
      [] fn = "coupons" -> run_coupons(SHEETS_CACHE, BANGGOOD_CACHE, ACCESS_TOKEN, upstream, req'.qy, now)
      [] fn = "bg"      -> run_bg(SHEETS_CACHE, BANGGOOD_CACHE, ACCESS_TOKEN, upstream, req'.qy, now)
      [] fn = "ali"     -> run_ali(SHEETS_CACHE, BANGGOOD_CACHE, ACCESS_TOKEN, upstream, req'.qy, now)
      [] fn = "search"  -> run_search(SHEETS_CACHE, BANGGOOD_CACHE, ACCESS_TOKEN, upstream, req'.qy, now)
\* The payload the try block builds, when it does not throw
builtPayload ==
    IF fn = "coupons" THEN payloadOf_coupons(tryBlock.feed[1], now)
    ELSE payloadOf(tryBlock.feed[1], now)

\* C1: when the aggregation throws, the answer is 200 with the retained
\* snapshot as body, its ETag and X-Fallback: snapshot if a snapshot is
\* retained, and a 500 with body {error: message} only if none is.
C1_FallbackSnapshotOr500 ==
    [][IsRequest /\ tryBlock.threw =>
          IF LAST_JSON # <<>>
          THEN /\ resp'.statusCode = 200 /\ resp'.body = LAST_JSON
               /\ resp'.ETag = LAST_ETAG /\ resp'.XFallback
          ELSE /\ resp'.statusCode = 500 /\ ~resp'.XFallback
               /\ resp'.body = <<[error |-> tryBlock.error]>>]_vars

\* A throwing request has been answered with the snapshot an earlier request left
C1_Witness ==
    /\ resp # <<>> /\ resp.XFallback /\ resp.statusCode = 200
    /\ resp.body = LAST_JSON /\ LAST_JSON # <<>>
    /\ resp.body[1].updatedAt < req.at

\* C2: a request whose If-None-Match equals the ETag computed for the body
\* the handler built gets 304 with an empty body and that ETag; one whose
\* If-None-Match is absent or different gets the full payload with 200.
C2_ConditionalRequest ==
    [][IsRequest /\ ~tryBlock.threw =>
          \A payload \in {builtPayload} :
              IF req'.ifNoneMatch = {etagOf(payload)}
              THEN /\ resp'.statusCode = 304 /\ resp'.body = <<>>
                   /\ resp'.ETag = {etagOf(payload)}
              ELSE /\ resp'.statusCode = 200 /\ resp'.body = <<payload>>
                   /\ resp'.ETag = {etagOf(payload)}]_vars

\* A request carrying the ETag of its own payload has been answered 304
C2_Witness ==
    /\ resp # <<>> /\ resp.statusCode = 304 /\ resp.body = <<>>
    /\ req.ifNoneMatch = resp.ETag

\* C3: a request that repeats the one before, the world unchanged, and
\* carries the ETag of the answer before as If-None-Match, gets a 304.
C3_RepeatedRequestGets304 ==
    [][(/\ IsRequest
        /\ resp # <<>> /\ resp.statusCode = 200 /\ ~resp.XFallback
        /\ req.world = upstream /\ upstream.fault = "none"
        /\ req'.qy = req.qy /\ req'.ifNoneMatch = resp.ETag
        /\ ~tryBlock.threw)
          => resp'.statusCode = 304]_vars

\* C9: an adapter's failure never reaches the caller: every answer is a
\* normal one, not a 500 and not the fallback snapshot.
C9_AdapterFailureNeverPropagates ==
    resp # <<>> => resp.statusCode # 500 /\ ~resp.XFallback

(***************************************************************************)
(* The redirect functions: go.ts (a 302) and the HTML redirect page.       *)
(*                                                                         *)
(* new URL(u, base) is modelled on the characters of u: an optional scheme *)
(* character ("http:", "ftp:", ...), "/" "/" and the host characters, the  *)
(* path up to "?", and the query as key "=" value pieces joined by "&".    *)
(* A parsed URL is a record; its searchParams is the list of its           *)
(* [key, value] pairs in order.                                            *)
(***************************************************************************)
SpecialSchemes == {"http:", "https:", "ftp:"}
OtherSchemes == {"mailto:", "javascript:"}
isScheme(c) == LowerChar(c) \in SpecialSchemes \cup OtherSchemes

\* new URLSearchParams(query): the pairs of a query string (without "?")
searchParamsOf(query) ==
    LET pieces == nonEmpty(split(query, "&"))
    IN  [i \in 1..Len(pieces) |->
            [key   |-> splitFirst(pieces[i], "="),
             value |-> IF indexOf(pieces[i], "=") = 0 THEN <<>>
                       ELSE SubSeq(pieces[i], indexOf(pieces[i], "=") + 1,
                                   Len(pieces[i]))]]

\* searchParams.toString()
searchOf(params) ==
    join([i \in 1..Len(params) |-> params[i].key \o <<"=">> \o params[i].value],
         <<"&">>)

\* searchParams.has(key)
has(params, key) == \E i \in 1..Len(params) : params[i].key = key

\* searchParams.get(key): the first value of the key, null (<<>>) without one
get(params, key) ==
    IF has(params, key)
    THEN params[CHOOSE i \in 1..Len(params) :
                  /\ params[i].key = key
                  /\ \A j \in 1..(i - 1) : params[j].key # key].value
    ELSE <<>>

\* searchParams.set(key, value): the first pair of the key takes the value
\* and the key's other pairs are removed; without one the pair is appended.
RECURSIVE setFrom(_, _, _, _)
setFrom(params, key, value, seen) ==
    IF params = <<>> THEN (IF seen THEN <<>> ELSE <<[key |-> key, value |-> value]>>)
    ELSE IF Head(params).key # key
         THEN <<Head(params)>> \o setFrom(Tail(params), key, value, seen)
    ELSE (IF seen THEN <<>> ELSE <<[key |-> key, value |-> value]>>)
           \o setFrom(Tail(params), key, value, TRUE)
set(params, key, value) == setFrom(params, key, value, FALSE)

NoBase == [ok |-> FALSE]
InvalidURL == [ok |-> FALSE]
URLOf(protocol, hostname, pathname, searchParams) ==
    [ok |-> TRUE, protocol |-> protocol, hostname |-> hostname,
     pathname |-> pathname, searchParams |-> searchParams]

\* The host parser rejects an empty host and forbidden host characters.
validHost(host) ==
    host # <<>> /\ \A i \in 1..Len(host) : host[i] \notin {"[", " ", "%"}

\* s without its leading slashes
RECURSIVE dropSlashes(_)
dropSlashes(s) == IF s # <<>> /\ Head(s) = "/" THEN dropSlashes(Tail(s)) ELSE s

\* The relative reference t resolved against base (whose path is "/")
relativeURL(t, base) ==
    URLOf(base.protocol, base.hostname,
          IF startsWith(t, <<"/">>) THEN splitFirst(t, "?")
          ELSE <<"/">> \o splitFirst(t, "?"),
          IF indexOf(t, "?") = 0 THEN <<>>
          ELSE searchParamsOf(SubSeq(t, indexOf(t, "?") + 1, Len(t))))

\* slashes, host, path, "?" query of a special scheme: the slashes before the
\* host are skipped however many there are
authorityURL(protocol, rest) ==
    LET r     == dropSlashes(rest)
        hp    == splitFirst(r, "?")
        host  == splitFirst(hp, "/")
        path  == SubSeq(hp, Len(host) + 1, Len(hp))
        query == IF indexOf(r, "?") = 0 THEN <<>>
                 ELSE SubSeq(r, indexOf(r, "?") + 1, Len(r))
    IN  IF ~validHost(host) THEN InvalidURL
        ELSE URLOf(protocol, toLowerCase(host),
                   IF path = <<>> THEN <<"/">> ELSE path, searchParamsOf(query))

\* new URL(u, base): base is a parsed URL, or NoBase for new URL(u).  A
\* failed parse (the constructor throws) is InvalidURL.
parseURL(u, base) ==
    LET t == trim(u)
    IN  IF t # <<>> /\ isScheme(t[1])
        THEN IF LowerChar(t[1]) \in SpecialSchemes
             THEN IF base.ok /\ base.protocol = LowerChar(t[1])
                     /\ ~startsWith(Tail(t), <<"/", "/">>)
                  THEN relativeURL(Tail(t), base)
                  ELSE authorityURL(LowerChar(t[1]), Tail(t))
             ELSE URLOf(LowerChar(t[1]), <<>>, splitFirst(Tail(t), "?"),
                        IF indexOf(t, "?") = 0 THEN <<>>
                        ELSE searchParamsOf(SubSeq(t, indexOf(t, "?") + 1, Len(t))))
        ELSE IF ~base.ok THEN InvalidURL
        ELSE IF startsWith(t, <<"/", "/">>) THEN authorityURL(base.protocol, t)
        ELSE relativeURL(t, base)

\* url.toString()
href(url) ==
    <<url.protocol>>
      \o (IF url.protocol \in SpecialSchemes THEN <<"/", "/">> \o url.hostname
          ELSE <<>>)
      \o url.pathname
      \o (IF url.searchParams = <<>> THEN <<>> ELSE <<"?">> \o searchOf(url.searchParams))

\* go.ts isBanggood: /(^|\.)banggood\.com$/i on the host name.  A host is
\* written as its last label pair preceded by at most one more character,
\* which ends with a dot ("www.") or does not ("not").
DotLabels == {"www.", "m."}
isBanggood(u) ==
    /\ u.hostname # <<>>
    /\ LowerChar(u.hostname[Len(u.hostname)]) = "banggood.com"
    /\ Len(u.hostname) > 1 => u.hostname[Len(u.hostname) - 1] \in DotLabels

\* A rewriting that leaves the scheme of the target alone
ensureHttps_keep(u) == u

\* go.ts ensureHttps
ensureHttps(u) ==
    IF u.protocol = "http:" THEN [u EXCEPT !.protocol = "https:"] ELSE u

\* go.ts addQueryParam
addQueryParam(u, key, value) ==
    IF value = <<>> THEN u
    ELSE IF ~has(u.searchParams, key)
         THEN [u EXCEPT !.searchParams = set(u.searchParams, key, value)]
    ELSE u

\* process.env as go.ts reads it: UTM_SOURCE, UTM_MEDIUM and UTM_CAMPAIGN
\* take their defaults when unset (<<>>).
envOr(v, dflt) == IF v = <<>> THEN dflt ELSE v
UTM_SOURCE(env) == envOr(env.UTM_SOURCE, <<"kvbm">>)
UTM_MEDIUM(env) == envOr(env.UTM_MEDIUM, <<"pwa">>)
UTM_CAMPAIGN(env) == envOr(env.UTM_CAMPAIGN, <<"coupons">>)

\* A response of a redirect function.  Location and refresh are <<>> when the
\* response has no Location header and is no refresh page.
Redirect(statusCode, Location, refresh, cacheControl, referrerPolicy, body) ==
    [statusCode |-> statusCode, Location |-> Location, refresh |-> refresh,
     CacheControl |-> cacheControl, ReferrerPolicy |-> referrerPolicy,
     body |-> body]
PlainText(statusCode, body) == Redirect(statusCode, <<>>, <<>>, <<>>, <<>>, body)

ExampleBase == URLOf("https:", <<"example.com">>, <<"/">>, <<>>)

\* go.ts handler
handler_go(event, env) ==
    IF event.u = <<>> THEN PlainText(400, <<"Missing u">>)
    ELSE
      LET parsed == parseURL(event.u, ExampleBase)
      IN  IF ~parsed.ok THEN PlainText(500, <<"Invalid URL">>)
          ELSE IF parsed.protocol \notin {"http:", "https:"}
               THEN PlainText(400, <<"Invalid URL">>)
          ELSE
            LET t0 == ensureHttps(parsed)
                t1 == IF isBanggood(t0) /\ env.BANGGOOD_AFFILIATE_PARAM # <<>>
                         /\ ~has(t0.searchParams, <<"p">>)
                      THEN [t0 EXCEPT !.searchParams =
                              set(t0.searchParams, <<"p">>, env.BANGGOOD_AFFILIATE_PARAM)]
                      ELSE t0
                t2 == addQueryParam(t1, <<"utm_source">>, UTM_SOURCE(env))
                t3 == addQueryParam(t2, <<"utm_medium">>, UTM_MEDIUM(env))
                t4 == addQueryParam(t3, <<"utm_campaign">>, UTM_CAMPAIGN(env))
                t5 == IF event.src # <<>>
                      THEN addQueryParam(t4, <<"utm_content">>, event.src) ELSE t4
                t6 == IF event.code # <<>>
                      THEN addQueryParam(t5, <<"coupon">>, event.code) ELSE t5
            IN  Redirect(302, href(t6), <<>>, <<"no-store">>, <<>>, <<>>)

\* The redirect page's appendUtm: a parameter is set when it has no value or
\* an empty one; a string that is no absolute URL is returned as it is.
appendUtm(u) ==
    LET url == parseURL(u, NoBase)
        setIfFalsy(params, key, value) ==
            IF get(params, key) = <<>> THEN set(params, key, value) ELSE params
    IN  IF ~url.ok THEN u
        ELSE href([url EXCEPT !.searchParams =
                    setIfFalsy(
                      setIfFalsy(
                        setIfFalsy(url.searchParams,
                                   <<"utm_source">>, <<"kinabolveddmeg">>),
                        <<"utm_medium">>, <<"pwa">>),
                      <<"utm_campaign">>, <<"coupons">>)])

\* The redirect page's handler: any non-empty u gets a refresh page
handler_page(event) ==
    IF event.u = <<>> THEN PlainText(400, <<"Missing u">>)
    ELSE Redirect(200, <<>>, encodeURI(appendUtm(upgradeHttp(event.u))),
                  <<"no-store">>, <<"no-referrer">>, <<"Redirecting">>)

(***************************************************************************)
(* SpecGo: the redirect functions and bg.ts appendAffiliate applied to     *)
(* targets put together from a scheme, an authority, a path and a query.   *)
(***************************************************************************)
GoSchemes == {<<>>, <<"http:">>, <<"HTTP:">>, <<"https:">>, <<"ftp:">>, <<"mailto:">>}
GoAuthorities ==
    {<<>>, <<"/", "/", "shop.example.com">>, <<"/", "/", "banggood.com">>,
     <<"/", "/", "www.", "banggood.com">>, <<"/", "/", "not", "banggood.com">>,
     <<"/", "/", "[">>}
GoPaths == {<<>>, <<"/", "item">>}
GoQueries ==
    {<<>>, <<"?", "x", "=", "1">>, <<"?", "p", "=", "old">>,
     <<"?", "utm_medium", "=">>,
     <<"?", "utm_source", "=", "a", "&", "x", "=", "1", "&", "utm_source", "=", "b">>,
     <<"?", "x", "=", "1", "&", "utm_campaign", "=", "c", "&", "coupon", "=", "k">>}
GoTargets ==
    {s \o a \o p \o q : s \in GoSchemes, a \in GoAuthorities, p \in GoPaths,
                        q \in GoQueries}
GoContexts == {[src |-> <<>>, code |-> <<>>], [src |-> <<"bg">>, code |-> <<"Z">>]}
GoEnvs ==
    [BANGGOOD_AFFILIATE_PARAM : {<<>>, <<"AFF">>}, UTM_SOURCE : {<<>>, <<"news">>},
     UTM_MEDIUM : {<<>>}, UTM_CAMPAIGN : {<<>>}]

InitGo ==
    /\ call \in [which : {"go", "page", "affiliate"}, u : GoTargets,
                 context : GoContexts, env : GoEnvs]
    /\ ret = Pending
    /\ HttpIdle

eventOf(c) == [u |-> c.u, src |-> c.context.src, code |-> c.context.code]

\* A request to go.ts
Go ==
    /\ ~ret.done /\ call.which = "go"
    /\ \E r \in {handler_go(eventOf(call), call.env)} :
          ret' = Returned([resp |-> r, final |-> r.Location])
    /\ UNCHANGED <<call, httpVars>>

\* A request to the redirect page
Page ==
    /\ ~ret.done /\ call.which = "page"
    /\ \E r \in {handler_page(eventOf(call))} :
          ret' = Returned([resp |-> r, final |-> r.refresh])
    /\ UNCHANGED <<call, httpVars>>

\* bg.ts gives a coupon's link its affiliate parameter
Affiliate ==
    /\ ~ret.done /\ call.which = "affiliate" /\ call.u # <<>>
    /\ ret' = Returned([resp |-> <<>>,
                        final |-> appendAffiliate(call.u,
                                    trim(call.env.BANGGOOD_AFFILIATE_PARAM))])
    /\ UNCHANGED <<call, httpVars>>

NextGo == Go \/ Page \/ Affiliate
SpecGo == InitGo /\ [][NextGo]_vars

\* The target as an absolute URL, and whether it is one of scheme http(s)
absoluteTarget == parseURL(call.u, NoBase)
isAbsoluteHttp == absoluteTarget.ok /\ absoluteTarget.protocol \in {"http:", "https:"}
redirects ==
    ret.done /\ ret.out.resp # <<>>
      /\ (ret.out.resp.statusCode = 302 \/ ret.out.resp.Location # <<>>
            \/ ret.out.resp.refresh # <<>>)

\* C11: a u that is absent, empty, relative, unparseable or not http(s)
\* is answered 400 with a plain-text reason and neither a Location header nor a
\* refresh page; a redirect is produced only for an absolute http(s) target.
C11_BadTargetGets400 ==
    ret.done /\ ret.out.resp # <<>> =>
        /\ ~isAbsoluteHttp =>
              /\ ret.out.resp.statusCode = 400
              /\ ret.out.resp.body # <<>>
              /\ ret.out.resp.Location = <<>> /\ ret.out.resp.refresh = <<>>
        /\ redirects => isAbsoluteHttp

\* The 302 of go.ts for an absolute http(s) target
locationURL == parseURL(ret.out.resp.Location, NoBase)

\* C12: for a valid absolute http(s) target go.ts answers 302 with a
\* Location of scheme https that carries utm_source, utm_medium and
\* utm_campaign, and the affiliate parameter p when the host is Banggood's and
\* the parameter is configured, and with Cache-Control: no-store.
C12_RewrittenLocation ==
    ret.done /\ call.which = "go" /\ isAbsoluteHttp =>
        /\ ret.out.resp.statusCode = 302
        /\ ret.out.resp.CacheControl = <<"no-store">>
        /\ locationURL.ok /\ locationURL.protocol = "https:"
        /\ has(locationURL.searchParams, <<"utm_source">>)
        /\ has(locationURL.searchParams, <<"utm_medium">>)
        /\ has(locationURL.searchParams, <<"utm_campaign">>)
        /\ (isBanggood(absoluteTarget) /\ call.env.BANGGOOD_AFFILIATE_PARAM # <<>>
              => has(locationURL.searchParams, <<"p">>))

C12_Witness ==
    /\ ret.done /\ call.which = "go" /\ isAbsoluteHttp
    /\ absoluteTarget.protocol = "http:" /\ isBanggood(absoluteTarget)
    /\ call.env.BANGGOOD_AFFILIATE_PARAM # <<>>
    /\ ~has(absoluteTarget.searchParams, <<"p">>)
    /\ has(absoluteTarget.searchParams, <<"x">>)
    /\ ret.out.resp.statusCode = 302
    /\ get(locationURL.searchParams, <<"p">>) = call.env.BANGGOOD_AFFILIATE_PARAM
    /\ get(locationURL.searchParams, <<"x">>) = <<"1">>

\* The values a key has in a query, in order
valuesOf(params, key) ==
    LET isKey(p) == p.key = key IN
    LET kept == SelectSeq(params, isKey)
    IN  [i \in 1..Len(kept) |-> kept[i].value]
keysOf(params) == {params[i].key : i \in 1..Len(params)}

\* C13: rewriting leaves every query parameter of the target with its
\* original value, and adds a parameter only when its key is absent, so that
\* no added key has two values.
C13_ExistingParametersKept ==
    ret.done /\ isAbsoluteHttp /\ ret.out.final # <<>> =>
        \A final \in {parseURL(ret.out.final, NoBase)} :
            /\ final.ok
            /\ \A k \in keysOf(absoluteTarget.searchParams) :
                  valuesOf(final.searchParams, k)
                    = valuesOf(absoluteTarget.searchParams, k)
            /\ \A k \in keysOf(final.searchParams) :
                  Len(valuesOf(final.searchParams, k)) > 1
                    => k \in keysOf(absoluteTarget.searchParams)

(***************************************************************************)
(* SpecFilter: a request with a keyword or a warehouse, and no other       *)
(* parameter, to each of the five deal feeds.  a and b are what the        *)
(* sources hold, as in SpecPipe; for ali they are the products the         *)
(* affiliate API answers the request with.                                 *)
(***************************************************************************)
KeywordQueries == {[NoQuery EXCEPT !.q = q] : q \in {<<"C">>, <<"Z">>}}
WarehouseQueries ==
    {[NoQuery EXCEPT !.wh = w] : w \in {<<"E", "U">>, <<"c", "n">>, <<"P", "L">>}}
FilterQueries == {NoQuery} \cup KeywordQueries \cup WarehouseQueries

InitFilter ==
    /\ call \in {c \in [which : {"sheets", "coupons", "bg", "ali", "search"},
                        a : SeqUpTo(PipeEntries, MaxList),
                        b : SeqUpTo(PipeEntries, MaxList),
                        qy : FilterQueries] : Len(c.a) + Len(c.b) <= MaxList}
    /\ ret = Pending
    /\ HttpIdle

\* ali.ts: the keyword goes to the API; its answer is cut to the page
pipe_ali(a, b, qy, t) == feed_ali(mapSeq(a \o b, PipeProduct), qy, t)

\* search.ts on top of its endpoints
pipe_search_endpoints(a, b, qy, t) == feed_search(searchLists(a, b, qy, t), qy, t)

\* The answer to the request, next to the answer to the request without
\* parameters (the candidates)
Filtered(feed, unfiltered) ==
    /\ ~ret.done
    /\ ret' = Returned([page |-> feed.page, candidates |-> unfiltered.page])
    /\ UNCHANGED <<call, httpVars>>

Filter_sheets ==
    /\ call.which = "sheets"
    /\ Filtered(pipe_sheets(call.a, call.b, call.qy, now),
                pipe_sheets(call.a, call.b, NoQuery, now))

Filter_coupons ==
    /\ call.which = "coupons"
    /\ Filtered(pipe_coupons(call.a, call.b, call.qy, now),
                pipe_coupons(call.a, call.b, NoQuery, now))

Filter_bg ==
    /\ call.which = "bg"
    /\ Filtered(pipe_bg(call.a, call.b, call.qy, now),
                pipe_bg(call.a, call.b, NoQuery, now))

Filter_ali ==
    /\ call.which = "ali"
    /\ Filtered(pipe_ali(call.a, call.b, call.qy, now),
                pipe_ali(call.a, call.b, NoQuery, now))

Filter_search ==
    /\ call.which = "search"
    /\ Filtered(pipe_search_endpoints(call.a, call.b, call.qy, now),
                pipe_search_endpoints(call.a, call.b, NoQuery, now))

NextFilter == Filter_sheets \/ Filter_coupons \/ Filter_bg \/ Filter_ali \/ Filter_search
SpecFilter == InitFilter /\ [][NextFilter]_vars

\* The deals of the candidates that the answer holds are those that satisfy
\* a condition
returnsExactly(keeps(_)) ==
    \A d \in Range(ret.out.candidates) : inList(d, ret.out.page) <=> keeps(d)

\* C14: wh = X other than EU returns exactly the deals whose warehouse
\* is X ignoring case, and wh = EU exactly the deals that have a warehouse
\* other than CN; a deal without a warehouse passes no warehouse filter.
\* (ali reads no wh parameter and is left out.)
warehouseIs(d) ==
    IF toUpperCase(call.qy.wh) = <<"E", "U">>
    THEN d.wh # <<>> /\ toUpperCase(d.wh) # <<"C", "N">>
    ELSE d.wh # <<>> /\ toUpperCase(d.wh) = toUpperCase(call.qy.wh)
C14_WarehouseFilter ==
    ret.done /\ call.qy.wh # <<>> /\ call.which # "ali" => returnsExactly(warehouseIs)

\* C15: with a keyword q, a deal is returned exactly when q occurs,
\* ignoring case, in its title, in its coupon code or in one of its tags, on
\* every feed that reads q.
keywordOccurs(d) ==
    LET q == toLowerCase(call.qy.q)
    IN  \/ includes(toLowerCase(d.title), q)
        \/ includes(toLowerCase(d.code), q)
        \/ \E i \in 1..Len(d.tags) : includes(toLowerCase(d.tags[i]), q)
PayloadMembers == {"count", "items", "nextCursor", "updatedAt", "meta"}
isCompletePayload(body) == body # <<>> /\ DOMAIN body[1] = PayloadMembers

\* C16: whatever requests, failing or not, came before, a response of
\* a deal-feed handler is a 200 with a complete payload {count, items,
\* nextCursor, updatedAt, meta}, a 304 with an empty body, a 200 fallback
\* snapshot that is a complete earlier payload marked X-Fallback, or a 500 with
\* a JSON {error} object.
C16_ResponseShapes ==
    resp # <<>> =>
        \/ /\ resp.statusCode = 200 /\ ~resp.XFallback
           /\ isCompletePayload(resp.body)
        \/ /\ resp.statusCode = 304 /\ resp.body = <<>>
        \/ /\ resp.statusCode = 200 /\ resp.XFallback
           /\ isCompletePayload(resp.body)
           /\ resp.body[1].updatedAt <= req.at
        \/ /\ resp.statusCode = 500
           /\ resp.body # <<>> /\ DOMAIN resp.body[1] = {"error"}

\* C17: whatever the limit parameter is (absent, no number, zero,
\* negative, above 200), the page size used for the slice and for nextCursor
\* is an integer from 1 to 200: a page never holds more than 200 items and
\* holds at least one when items remain at the offset.
C17_LimitClamped ==
    ret.done =>
        /\ ret.out.limit # {} /\ val(ret.out.limit) \in 1..LIMIT_MAX
        /\ Len(ret.out.page) <= LIMIT_MAX
        /\ (ret.out.start >= 0 /\ ret.out.start < Len(ret.out.all)
              => ret.out.page # <<>>)

(***************************************************************************)
(* SpecNormalize: the four normalizeUrl functions applied once and twice   *)
(* to links put together from a scheme, a host and a path.                 *)
(***************************************************************************)
NormalizeInputs ==
    {lead \o scheme \o host \o path :
        lead \in {<<>>, <<" ">>},
        scheme \in {<<>>, <<"http:">>, <<"HTTP:">>, <<"https:">>},
        host \in {<<"/", "/", "x.com">>, <<"x.com">>},
        path \in {<<>>, <<"/", "a">>, <<"/", "a", " ", "b">>,
                  <<"/", "a", "%", "20", "b">>}}

InitNormalize ==
    /\ call \in [which : {"sheets", "coupons", "bg", "ali"}, u : NormalizeInputs]
    /\ ret = Pending
    /\ HttpIdle

Normalized(once, twice) ==
    /\ ~ret.done
    /\ ret' = Returned([once |-> once, twice |-> twice])
    /\ UNCHANGED <<call, httpVars>>

Normalize_sheets ==
    /\ call.which = "sheets"
    /\ Normalized(normalizeUrl_sheets(call.u), normalizeUrl_sheets(normalizeUrl_sheets(call.u)))

Normalize_coupons ==
    /\ call.which = "coupons"
    /\ Normalized(normalizeUrl_coupons(call.u),
                  normalizeUrl_coupons(normalizeUrl_coupons(call.u)))

Normalize_bg ==
    /\ call.which = "bg"
    /\ Normalized(normalizeUrl_bg(call.u), normalizeUrl_bg(normalizeUrl_bg(call.u)))

Normalize_ali ==
    /\ call.which = "ali"
    /\ Normalized(normalizeUrl(call.u), normalizeUrl(normalizeUrl(call.u)))

NextNormalize == Normalize_sheets \/ Normalize_coupons \/ Normalize_bg \/ Normalize_ali
SpecNormalize == InitNormalize /\ [][NextNormalize]_vars

\* C18: normalizeUrl(normalizeUrl(x)) = normalizeUrl(x) for every x,
\* percent-escapes in x included, and for a non-empty x that starts with http:
\* or with // the result has scheme https:.
C18_NormalizeUrlIdempotent ==
    ret.done =>
        /\ ret.out.twice = ret.out.once
        /\ (startsWith(call.u, <<"http:">>) \/ startsWith(call.u, <<"/", "/">>)
              => startsWith(ret.out.once, <<"https:">>))

\* C19: no two items of a response have the same id, and an item's id
\* does not depend on when the offer was fetched.
C19_IdsUniqueInResponse ==
    ret.done =>
        /\ \A i, j \in 1..Len(ret.out.page) :
              i # j => ret.out.page[i].id # ret.out.page[j].id
        /\ \A later \in {pipe(call.which, call.a, call.b, call.qy, now + DAY_MS).page} :
              /\ Len(later) = Len(ret.out.page)
              /\ \A i \in 1..Len(later) : later[i].id = ret.out.page[i].id

(***************************************************************************)
(* SpecMoney: the parseMoney functions applied to strings of digits and    *)
(* decimal marks, and to cells without a digit.                            *)
(***************************************************************************)
\* The longest string of digits and marks handed to parseMoney.
MaxMoney == 5
MoneyChars == {"1", "5", ",", "."}
NoDigitInputs == {<<" ">>, <<"no", " ", "data">>, <<"-">>, <<"n/a">>, <<" ", ",", " ">>}
MoneyInputs == SeqUpTo(MoneyChars, MaxMoney) \cup NoDigitInputs

InitMoney ==
    /\ call \in [which : {"coupons", "bg"}, v : MoneyInputs]
    /\ ret = Pending
    /\ HttpIdle

ParseMoney_coupons ==
    /\ call.which = "coupons" /\ ~ret.done
    /\ ret' = Returned(parseMoney_coupons(call.v))
    /\ UNCHANGED <<call, httpVars>>

ParseMoney_bg ==
    /\ call.which = "bg" /\ ~ret.done
    /\ ret' = Returned(parseMoney(call.v))
    /\ UNCHANGED <<call, httpVars>>

NextMoney == ParseMoney_coupons \/ ParseMoney_bg
SpecMoney == InitMoney /\ [][NextMoney]_vars

\* The number a string of digits and marks stands for when its last mark is
\* the decimal mark and every other mark is dropped, in hundredths
digitsOf(s) == SelectSeq(s, isDigit)
hasDigit(s) == digitsOf(s) # <<>>
lastMark(s) == Max(lastIndexOf(s, ","), lastIndexOf(s, "."))
lastMarkDecimal(s) ==
    LET whole == IF lastMark(s) = 0 THEN digitsOf(s)
                 ELSE digitsOf(SubSeq(s, 1, lastMark(s) - 1))
        frac  == IF lastMark(s) = 0 THEN <<>>
                 ELSE digitsOf(SubSeq(s, lastMark(s) + 1, Len(s)))
    IN  {toNat(whole) * 100 + toNat(SubSeq(frac \o <<"0", "0">>, 1, 2))}

\* The strings the decimal-mark rules speak of: digits with marks, where a
\* comma that is the decimal mark is the only comma
countOfChar(s, c) == Len(SelectSeq(s, LAMBDA x : x = c))
isMarkedNumber(s) ==
    /\ hasDigit(s)
    /\ \A i \in 1..Len(s) : s[i] \in MoneyChars
    /\ (lastMark(s) # 0 /\ s[lastMark(s)] = "," => countOfChar(s, ",") = 1)

\* C20: a lone comma is the decimal mark; with both a comma and a dot
\* the one that comes last is the decimal mark and every occurrence of the
\* other is dropped; of several dots all but the last are dropped; and an
\* input without a digit gives absent, never zero.
C20_ParseMoneyDecimalMark ==
    ret.done =>
        /\ isMarkedNumber(call.v) => ret.out = lastMarkDecimal(call.v)
        /\ ~hasDigit(call.v) => ret.out = {}

C20_Witness ==
    /\ ret.done
    /\ call.v = <<"1", ".", "5", ",", "1">>
    /\ ret.out = {1510}

(***************************************************************************)
(* SpecAli: one invocation of the AliExpress call.  callAliTOP is the      *)
(* retrying caller of the TOP gateways, callAli (ali.ts) the caller of the *)
(* business interface.  call holds what the environment and the vendor     *)
(* will do: whether the credentials are set, and what each request comes   *)
(* to; ret is the position of the invocation, with the requests it has     *)
(* made and the sleeps it has taken.                                       *)
(***************************************************************************)
\* for (let attempt = 0; attempt < 3; attempt++)
MaxAttempts == 3
GATEWAYS == << <<"gw.api.taobao.com">>, <<"eco.taobao.com">> >>
SYNC_GATEWAY == <<"api-sg.aliexpress.com">>

\* What a request comes to: axios rejects with an error (code, message), or
\* resolves with data holding an error_response or a result
Rejected(code, message) ==
    [rejected |-> TRUE, code |-> code, message |-> message,
     error_response |-> <<>>, result |-> <<>>]
Resolved(error_response, result) ==
    [rejected |-> FALSE, code |-> <<>>, message |-> <<>>,
     error_response |-> error_response, result |-> result]
ErrorResponse(msg, sub_msg, code) == <<[msg |-> msg, sub_msg |-> sub_msg, code |-> code]>>
Result(resp_code, resp_msg) == <<[resp_code |-> resp_code, resp_msg |-> resp_msg]>>

BusinessOutcomes ==
    { Resolved(ErrorResponse(<<"Invalid", " ", "signature">>, <<>>, <<"25">>), <<>>),
      Resolved(ErrorResponse(<<"Remote", " ", "service", " ", "error">>,
                             <<"Remote", " ", "service", " ", "Timeout">>, <<"15">>), <<>>),
      Resolved(<<>>, Result(405, <<"The", " ", "result", " ", "is", " ", "empty">>)),
      Resolved(<<>>, Result(500, <<"Call", " ", "timeout">>)),
      Resolved(<<>>, <<>>) }
NetworkOutcomes ==
    { Rejected(<<"ECONNABORTED">>, <<"timeout", " ", "of", " ", "ms", " ", "exceeded">>),
      Rejected(<<"ENOTFOUND">>, <<"getaddrinfo", " ", "ENOTFOUND">>),
      Rejected(<<"EAI_AGAIN">>, <<"getaddrinfo", " ", "EAI_AGAIN">>),
      Rejected(<<"ECONNRESET">>, <<"socket", " ", "hang", " ", "up">>) }
AliOutcomes ==
    {Resolved(<<>>, Result(200, <<>>)),
     Rejected(<<"ERR_BAD_RESPONSE">>, <<"Request", " ", "failed">>)}
        \cup BusinessOutcomes \cup NetworkOutcomes

\* new Error(message), and an error of axios
Error(message) == [code |-> <<>>, message |-> message]
AxiosError(outcome) == [code |-> outcome.code, message |-> outcome.message]

\* The body of the try block of callAliTOP, after the request has settled:
\* the result, or the error thrown
tryTOP(outcome) ==
    IF outcome.rejected THEN [threw |-> TRUE, error |-> AxiosError(outcome), result |-> <<>>]
    ELSE IF outcome.error_response # <<>>
    THEN LET er  == outcome.error_response[1]
             msg == IF er.sub_msg # <<>> THEN er.sub_msg
                    ELSE IF er.msg # <<>> THEN er.msg ELSE <<"AliExpress API hiba">>
             code == IF er.code # <<>> THEN er.code ELSE <<"?">>
         IN  [threw |-> TRUE, error |-> Error(msg \o <<" ", "(code: ">> \o code \o <<")">>),
              result |-> <<>>]
    ELSE IF outcome.result = <<>> \/ outcome.result[1].resp_code # 200
    THEN [threw |-> TRUE,
          error |-> Error(<<"AliExpress API hiba: ">> \o
                          (IF outcome.result # <<>> /\ outcome.result[1].resp_msg # <<>>
                           THEN outcome.result[1].resp_msg ELSE <<"Ismeretlen">>)),
          result |-> <<>>]
    ELSE [threw |-> FALSE, error |-> <<>>, result |-> outcome.result]

\* /timeout/i.test(message)
testTimeout(message) == \E i \in 1..Len(message) : LowerChar(message[i]) = "timeout"
isTimeout(e) == e.code = <<"ECONNABORTED">> \/ testTimeout(e.message)
isNetwork(e) == e.code \in {<<"ENOTFOUND">>, <<"EAI_AGAIN">>, <<"ECONNRESET">>}

\* ali.ts callAli, after its one request has settled: a result without
\* resp_code counts as 200, and data without a result is its own result
tryAli(outcome) ==
    IF outcome.rejected THEN [threw |-> TRUE, error |-> AxiosError(outcome), result |-> <<>>]
    ELSE IF outcome.error_response # <<>>
    THEN LET er  == outcome.error_response[1]
             msg == IF er.msg # <<>> THEN er.msg
                    ELSE IF er.sub_msg # <<>> THEN er.sub_msg ELSE <<"Ismeretlen hiba">>
         IN  [threw |-> TRUE, error |-> Error(msg \o <<" ", "(code: ">> \o er.code \o <<")">>),
              result |-> <<>>]
    ELSE IF outcome.result # <<>> /\ outcome.result[1].resp_code # 200
    THEN [threw |-> TRUE,
          error |-> Error(<<"AliExpress API hiba: ">> \o
                          (IF outcome.result[1].resp_msg # <<>>
                           THEN outcome.result[1].resp_msg
                           ELSE <<"Ismeretlen válaszstruktúra">>)),
          result |-> <<>>]
    ELSE [threw |-> FALSE, error |-> <<>>,
          result |-> IF outcome.result # <<>> THEN outcome.result ELSE Result(200, <<>>)]

\* GATEWAYS[attempt % GATEWAYS.length]
gatewayOf_first(attempt) == GATEWAYS[1]
gatewayOf(attempt) == GATEWAYS[(attempt % Len(GATEWAYS)) + 1]

\* The position of an invocation
AliAt(pc, attempt, lastErr, posts, sleeps) ==
    [pc |-> pc, attempt |-> attempt, lastErr |-> lastErr, posts |-> posts,
     sleeps |-> sleeps, threw |-> FALSE, out |-> <<>>]
AliReturned(at, result) == [at EXCEPT !.pc = "done", !.out = result]
AliThrew(at, error) == [at EXCEPT !.pc = "done", !.threw = TRUE, !.out = <<error>>]
Post(gw, timeout, outcome) == [gw |-> gw, timeout |-> timeout, outcome |-> outcome]

InitAli ==
    /\ call \in [which : {"top"}, creds : BOOLEAN, outcomes : [1..MaxAttempts -> AliOutcomes]]
            \cup [which : {"ali"}, creds : BOOLEAN, outcomes : [1..1 -> AliOutcomes]]
    /\ ret = AliAt("start", 0, <<>>, <<>>, <<>>)
    /\ HttpIdle

\* callAliTOP up to the loop: the credentials are tested, the body is signed
TopStart ==
    /\ call.which = "top" /\ ret.pc = "start"
    /\ ret' = IF ~call.creds
              THEN AliThrew(ret, Error(<<"AliExpress API környezeti változók hiányoznak">>))
              ELSE [ret EXCEPT !.pc = "post"]
    /\ UNCHANGED <<call, httpVars>>

\* One turn of the loop, from the request to the return, the sleep or the
\* throw after the loop
TopPost ==
    /\ call.which = "top" /\ ret.pc = "post" /\ ret.attempt < MaxAttempts
    /\ LET attempt == ret.attempt
           gw      == gatewayOf(attempt)
           perTryTimeout == 10000 + attempt * 2000
           outcome == call.outcomes[attempt + 1]
           at      == [ret EXCEPT !.posts = Append(@, Post(gw, perTryTimeout, outcome))]
           try     == tryTOP(outcome)
       IN  ret' = IF ~try.threw THEN AliReturned(at, try.result)
                  ELSE IF attempt < 2 /\ (isTimeout(try.error) \/ isNetwork(try.error))
                  THEN [at EXCEPT !.pc = "sleep", !.lastErr = <<try.error>>,
                                  !.sleeps = Append(@, 300 + attempt * 400)]
                  ELSE AliThrew([at EXCEPT !.lastErr = <<try.error>>], try.error)
    /\ UNCHANGED <<call, httpVars>>

\* The sleep is over: continue
TopSleep ==
    /\ call.which = "top" /\ ret.pc = "sleep"
    /\ ret' = [ret EXCEPT !.pc = "post", !.attempt = @ + 1]
    /\ UNCHANGED <<call, httpVars>>

\* ali.ts callAli
CallAli ==
    /\ call.which = "ali" /\ ret.pc = "start"
    /\ ret' = IF ~call.creds
              THEN AliThrew(ret, Error(<<"AliExpress API környezeti változók hiányoznak">>))
              ELSE LET outcome == call.outcomes[1]
                       at  == [ret EXCEPT !.posts = Append(@, Post(SYNC_GATEWAY, 12000, outcome))]
                       try == tryAli(outcome)
                   IN  IF try.threw THEN AliThrew(at, try.error)
                       ELSE AliReturned(at, try.result)
    /\ UNCHANGED <<call, httpVars>>

NextAli == TopStart \/ TopPost \/ TopSleep \/ CallAli
SpecAli == InitAli /\ [][NextAli]_vars

\* The error a request's outcome makes the caller throw
errorOf(which, outcome) ==
    IF which = "top" THEN tryTOP(outcome).error ELSE tryAli(outcome).error

\* C21: an invocation makes at most 3 requests and always ends, with a
\* result or with the error of its last request; request k (from 0) of the
\* TOP call goes to gateway k mod 2 with a timeout of 10 s + 2 s * k, and the
\* sleeps taken are 300 ms and then 700 ms at most.
C21_BoundedRetry ==
    /\ Len(ret.posts) <= 3
    /\ call.which = "top" =>
          \A k \in 0..(Len(ret.posts) - 1) :
              /\ ret.posts[k + 1].gw = GATEWAYS[(k % 2) + 1]
              /\ ret.posts[k + 1].timeout = 10000 + 2000 * k
    /\ ret.sleeps \in {<<>>, <<300>>, <<300, 700>>}
    /\ ret.pc = "done" \/ ENABLED NextAli
    /\ ret.pc = "done" /\ ret.threw /\ ret.posts # <<>> =>
          ret.out = <<errorOf(call.which, ret.posts[Len(ret.posts)].outcome)>>
    /\ ret.pc = "done" /\ ~ret.threw => ret.out = Result(200, <<>>)

\* Three requests were made, over both gateways, with both sleeps between
\* them, and the error of the third is thrown
C21_Witness ==
    /\ call.which = "top" /\ ret.pc = "done" /\ ret.threw
    /\ Len(ret.posts) = 3 /\ ret.sleeps = <<300, 700>>
    /\ ret.posts[2].gw = GATEWAYS[2] /\ ret.posts[3].timeout = 14000
    /\ ret.out = ret.lastErr

\* Whether a request ended with a business-logic error
isBusiness(outcome) ==
    /\ ~outcome.rejected
    /\ outcome.error_response # <<>> \/ outcome.result = <<>> \/ outcome.result[1].resp_code # 200
isNetworkOrTimeout(outcome) == outcome \in NetworkOutcomes

\* C22: a request is followed by another only when it failed by the
\* network or by timeout; after a request that ended with a business-logic
\* error, whatever its message, none follows and the error is thrown.
C22_RetryOnlyOnNetworkFailure ==
    \A k \in 1..Len(ret.posts) :
        /\ k < Len(ret.posts) => isNetworkOrTimeout(ret.posts[k].outcome)
        /\ call.which = "top" /\ isBusiness(ret.posts[k].outcome) =>
              /\ k = Len(ret.posts)
              /\ ret.pc = "done" /\ ret.threw

(***************************************************************************)
(* SpecCache: the calls of one lambda instance to an adapter with a TTL    *)
(* cache (fetchSheetsDeals of either coupons handler, getAccessToken of    *)
(* bg.ts), the clock running and the remote service failing and recovering *)
(* between the calls.  ret holds the last call: what it came to, the cache *)
(* entry and the world it met, and the time.                               *)
(***************************************************************************)
\* How many times the clock moves.
MaxTicks == 3
CacheFaults == {"none", "auth", "fetch", "empty"}
ttlOf(which) == IF which = "bg" THEN TOKEN_TTL ELSE SHEETS_TTL_MS

InitCache ==
    /\ call \in [which : {"sheets", "coupons", "bg"}, ticks : {0}]
    /\ ret = <<>>
    /\ fn = "none" /\ now = 0
    /\ upstream \in [creds : BOOLEAN, fault : {"none"}]
    /\ SHEETS_CACHE = <<>> /\ BANGGOOD_CACHE = <<>> /\ ACCESS_TOKEN = <<>>
    /\ LAST_JSON = <<>> /\ LAST_ETAG = <<>>
    /\ req = <<>> /\ resp = <<>>

Called(got, before) == [got |-> got, before |-> before, at |-> now, world |-> upstream]

Fetch_sheets ==
    /\ call.which = "sheets"
    /\ \E got \in {fetchSheetsDeals_sheets(SHEETS_CACHE, upstream, now)} :
          /\ SHEETS_CACHE' = got.cache
          /\ ret' = Called(IF got.threw THEN got
                           ELSE [got EXCEPT !.items = got.items.items], SHEETS_CACHE)
    /\ UNCHANGED <<call, fn, now, upstream, BANGGOOD_CACHE, ACCESS_TOKEN,
                   LAST_JSON, LAST_ETAG, req, resp>>

Fetch_coupons ==
    /\ call.which = "coupons"
    /\ \E got \in {fetchSheetsDeals(SHEETS_CACHE, upstream, now)} :
          /\ SHEETS_CACHE' = got.cache
          /\ ret' = Called(got, SHEETS_CACHE)
    /\ UNCHANGED <<call, fn, now, upstream, BANGGOOD_CACHE, ACCESS_TOKEN,
                   LAST_JSON, LAST_ETAG, req, resp>>

GetAccessToken ==
    /\ call.which = "bg"
    /\ \E got \in {getAccessToken(ACCESS_TOKEN, upstream, now)} :
          /\ ACCESS_TOKEN' = got.cache
          /\ ret' = Called(got, ACCESS_TOKEN)
    /\ UNCHANGED <<call, fn, now, upstream, SHEETS_CACHE, BANGGOOD_CACHE,
                   LAST_JSON, LAST_ETAG, req, resp>>

CacheTick ==
    /\ call.ticks < MaxTicks
    /\ \E d \in {1, ttlOf(call.which) - 1} : now' = now + d
    /\ call' = [call EXCEPT !.ticks = @ + 1]
    /\ UNCHANGED <<ret, fn, upstream, SHEETS_CACHE, BANGGOOD_CACHE, ACCESS_TOKEN,
                   LAST_JSON, LAST_ETAG, req, resp>>

CacheFault ==
    /\ \E f \in CacheFaults \ {upstream.fault} : upstream' = [upstream EXCEPT !.fault = f]
    /\ UNCHANGED <<call, ret, fn, now, SHEETS_CACHE, BANGGOOD_CACHE, ACCESS_TOKEN,
                   LAST_JSON, LAST_ETAG, req, resp>>

NextCache == Fetch_sheets \/ Fetch_coupons \/ GetAccessToken \/ CacheTick \/ CacheFault
SpecCache == InitCache /\ [][NextCache]_vars

\* The entry the last call met was younger than ttl
metYoung(ttl) == ret.before # <<>> /\ ret.at - ret.before[1].ts < ttl

\* C23: fetchSheetsDeals reads the spreadsheet only when there is no
\* cache entry or the entry is at least SHEETS_TTL_MS old; a call that meets
\* a younger entry returns its items without a remote call; and the first
\* call after expiry refreshes the entry.
C23_SheetsCacheTTL ==
    ret # <<>> /\ call.which \in {"sheets", "coupons"} =>
        /\ ret.got.calls # <<>> => ~metYoung(300000)
        /\ metYoung(300000) =>
              /\ ret.got.calls = <<>> /\ ~ret.got.threw
              /\ ret.got.items = ret.before[1].items
              /\ SHEETS_CACHE = ret.before
        /\ ~metYoung(300000) /\ ret.world.creds =>
              /\ ret.got.calls # <<>>
              /\ ~ret.got.threw =>
                    /\ SHEETS_CACHE # <<>> /\ SHEETS_CACHE[1].ts = ret.at
                    /\ SHEETS_CACHE[1].items = ret.got.items

\* An entry that has reached the age of the TTL is read anew, one a
\* millisecond younger is served
C23_Witness ==
    /\ ret # <<>> /\ call.which = "sheets"
    /\ ret.before # <<>> /\ ret.at - ret.before[1].ts = 300000
    /\ ret.got.calls # <<>> /\ SHEETS_CACHE[1].ts = ret.at

\* C24: getAccessToken requests a token only when none is cached or the
\* cached one was obtained at least TOKEN_TTL (50 minutes) earlier; a token
\* is never handed out TOKEN_TTL or more after it was obtained; and a
\* request that fails or brings no access_token leaves the entry as it was.
C24_TokenCacheTTL ==
    ret # <<>> /\ call.which = "bg" =>
        /\ ret.got.calls # <<>> => ~metYoung(50 * 60 * 1000)
        /\ ~ret.got.threw =>
              /\ ACCESS_TOKEN # <<>> /\ ACCESS_TOKEN[1].token = ret.got.items
              /\ ret.at - ACCESS_TOKEN[1].ts < 50 * 60 * 1000
        /\ ret.got.threw => ACCESS_TOKEN = ret.before

\* A token at the age of the TTL is not handed out but requested anew, and
\* the request that brings no token leaves it cached
C24_Witness ==
    /\ ret # <<>> /\ call.which = "bg"
    /\ ret.before # <<>> /\ ret.at - ret.before[1].ts = 50 * 60 * 1000
    /\ ret.got.calls # <<>> /\ ret.got.threw /\ ACCESS_TOKEN = ret.before
    /\ ret.world.fault = "empty"

(***************************************************************************)
(* SpecScore: the scoreDeal functions applied to one Deal at time 0.       *)
(***************************************************************************)
ScoreWarehouses == {<<>>, <<"C", "N">>, <<"c", "n">>, <<"E", "U">>, <<"P", "L">>}
ScoreDeals ==
    {Deal(<<"id">>, "sheets", <<"Banggood">>, <<"a">>, <<"https:", "/", "/", "x.com">>,
          price, orig, <<>>, wh, end, {}, <<>>) :
        price \in {{}, {500}, {900}}, orig \in {{}, {1000}},
        wh \in ScoreWarehouses, end \in {{}, {DAY_MS}, {20 * DAY_MS}}}

InitScore ==
    /\ call \in [which : {"sheets", "bg", "search"}, d : ScoreDeals]
    /\ ret = Pending
    /\ HttpIdle

\* The score of the Deal, and the score of the same Deal shipped from CN
Scored(score, fromCN) == Returned([score |-> score, fromCN |-> fromCN])

ScoreDeal_sheets ==
    /\ call.which = "sheets" /\ ~ret.done
    /\ ret' = Scored(scoreDeal_sheets(call.d, 0),
                     scoreDeal_sheets([call.d EXCEPT !.wh = <<"C", "N">>], 0))
    /\ UNCHANGED <<call, httpVars>>

ScoreDeal_bg ==
    /\ call.which = "bg" /\ ~ret.done
    /\ ret' = Scored(scoreDeal_bg(call.d, 0),
                     scoreDeal_bg([call.d EXCEPT !.wh = <<"C", "N">>], 0))
    /\ UNCHANGED <<call, httpVars>>

ScoreDeal_search ==
    /\ call.which = "search" /\ ~ret.done
    /\ ret' = Scored(scoreDeal(call.d, 0),
                     scoreDeal([call.d EXCEPT !.wh = <<"C", "N">>], 0))
    /\ UNCHANGED <<call, httpVars>>

NextScore == ScoreDeal_sheets \/ ScoreDeal_bg \/ ScoreDeal_search
SpecScore == InitScore /\ [][NextScore]_vars

\* C25: scoreDeal adds the 10 points for the shipping origin exactly
\* when the Deal has a warehouse that, ignoring case, is not CN; a Deal
\* without a warehouse gets none, in every handler that ranks by score.
C25_ShippingBonus ==
    ret.done =>
        ret.out.score =
            IF call.d.wh # <<>> /\ toUpperCase(call.d.wh) # <<"C", "N">>
            THEN addScore(ret.out.fromCN, Score(10, 0))
            ELSE ret.out.fromCN

(***************************************************************************)
(* SpecConc: one lambda instance of the first coupons handler answering    *)
(* several requests at once.  An invocation runs from one await to the     *)
(* next without interruption, and at an await any other invocation may     *)
(* run: the awaits are the call of fetchSheetsDeals (which returns at once *)
(* from the cache or without credentials), jwt.authorize() and the reads   *)
(* of the sheets.  req holds the position of every invocation, resp the    *)
(* response sent last.                                                     *)
(***************************************************************************)
\* How many requests the instance answers at once.
MaxInvocations == 2
Invocations == 1..MaxInvocations
NotBegun == [pc |-> "start", qy |-> NoQuery, ifNoneMatch |-> {}, got |-> <<>>]
inFlight(i) == req[i].pc \in {"cached", "authorize", "read"}

InitConc ==
    /\ call = <<>> /\ ret = <<>>
    /\ fn = "sheets"
    /\ now = 0
    /\ upstream \in [creds : BOOLEAN, fault : {"none"}]
    /\ SHEETS_CACHE = <<>> /\ BANGGOOD_CACHE = <<>> /\ ACCESS_TOKEN = <<>>
    /\ LAST_JSON = <<>> /\ LAST_ETAG = {}
    /\ req = [i \in Invocations |-> NotBegun]
    /\ resp = <<>>

\* The handler up to its first await: the query is read, fetchSheetsDeals
\* is called and returns from the cache, or goes on to sign in
Begin(i) ==
    /\ req[i].pc = "start"
    /\ \E qy \in HttpQueries, h \in IfNoneMatchChoices :
       \E got \in {fetchSheetsDeals_sheets(SHEETS_CACHE, upstream, now)} :
           req' = [req EXCEPT ![i] =
                      IF got.calls = <<>>
                      THEN [pc |-> "cached", qy |-> qy, ifNoneMatch |-> h, got |-> <<got>>]
                      ELSE [pc |-> "authorize", qy |-> qy, ifNoneMatch |-> h, got |-> <<>>]]
    /\ UNCHANGED <<call, ret, fn, now, upstream, SHEETS_CACHE, BANGGOOD_CACHE,
                   ACCESS_TOKEN, LAST_JSON, LAST_ETAG, resp>>

\* From the return of fetchSheetsDeals to the return of the handler
Finish(i, got, cache) ==
    /\ \E ran \in {IF got.threw THEN Threw(got.error, cache, BANGGOOD_CACHE, ACCESS_TOKEN)
                   ELSE Ran(feed_sheets(got.items.items, got.items.meta, req[i].qy, now),
                            cache, BANGGOOD_CACHE, ACCESS_TOKEN)} :
       \E payload \in (IF ran.threw THEN {<<>>} ELSE {payloadOf(ran.feed[1], now)}) :
           Respond(ran, payload, req[i].ifNoneMatch, 300)
    /\ req' = [req EXCEPT ![i].pc = "done"]
    /\ UNCHANGED <<call, ret, fn, now, upstream>>

\* The cached answer of fetchSheetsDeals arrives
Continue(i) ==
    /\ req[i].pc = "cached"
    /\ Finish(i, req[i].got[1], SHEETS_CACHE)

\* jwt.authorize() settles
Authorize(i) ==
    /\ req[i].pc = "authorize"
    /\ IF upstream.fault = "auth"
       THEN Finish(i, fetchSheetsDeals_sheets(<<>>, upstream, now), SHEETS_CACHE)
       ELSE /\ req' = [req EXCEPT ![i].pc = "read"]
            /\ UNCHANGED <<call, ret, fn, now, upstream, SHEETS_CACHE, BANGGOOD_CACHE,
                           ACCESS_TOKEN, LAST_JSON, LAST_ETAG, resp>>

\* The reads of the sheets settle; the cache is written
Read(i) ==
    /\ req[i].pc = "read"
    /\ \E got \in {fetchSheetsDeals_sheets(<<>>,
                      [upstream EXCEPT !.fault = IF @ = "auth" THEN "none" ELSE @], now)} :
           Finish(i, got, got.cache)

NextConc ==
    \/ \E i \in Invocations : Begin(i) \/ Continue(i) \/ Authorize(i) \/ Read(i)
    \/ Tick \/ Fault
SpecConc == InitConc /\ [][NextConc]_vars

\* C26: however the invocations interleave at their awaits, LAST_ETAG
\* is the hash of LAST_JSON in every state (both empty at first), and a
\* fallback response carries the ETag of its body.
C26_SnapshotNeverTorn ==
    /\ LAST_ETAG = (IF LAST_JSON = <<>> THEN {} ELSE {etagOf(LAST_JSON[1])})
    /\ resp # <<>> /\ resp.XFallback =>
          resp.body # <<>> /\ resp.ETag = {etagOf(resp.body[1])}

\* An invocation has replaced the snapshot and the cache while another,
\* begun before that, is still awaiting its reads
C26_Witness ==
    /\ now = 0 /\ LAST_JSON # <<>> /\ SHEETS_CACHE # <<>>
    /\ \E i, j \in Invocations : req[i].pc = "done" /\ req[j].pc = "read"

\* C27: the retained snapshot changes only in a request answered with a
\* fresh 200 and its payload, which it then holds; a request answered with
\* 304, with the fallback snapshot or with 500 leaves LAST_JSON and
\* LAST_ETAG as they were.
C27_SnapshotFrame ==
    [][IsRequest =>
          /\ resp'.statusCode \in {304, 500} \/ resp'.XFallback =>
                UNCHANGED <<LAST_JSON, LAST_ETAG>>
          /\ ~UNCHANGED <<LAST_JSON, LAST_ETAG>> =>
                /\ resp'.statusCode = 200 /\ ~resp'.XFallback
                /\ LAST_JSON' = resp'.body /\ LAST_ETAG' = resp'.ETag]_vars

\* A request has been answered 304 while a snapshot is retained
C27_Witness ==
    /\ resp # <<>> /\ resp.statusCode = 304
    /\ LAST_JSON # <<>> /\ LAST_ETAG = resp.ETag

\* The call of fetchSheetsDeals a coupons handler makes for the request
\* answered in this step, and the call it would make for the next
refreshOf(cache) ==
    IF fn = "sheets" THEN fetchSheetsDeals_sheets(cache, upstream, now)
    ELSE fetchSheetsDeals(cache, upstream, now)
authorizeThrew(got) == got.threw /\ got.calls = <<"authorize">>

\* C28: when a refresh of the spreadsheet throws at the sign-in,
\* SHEETS_CACHE keeps its value, the handler answers with the snapshot or
\* with 500, and the next request attempts the refresh again; and a cache
\* entry is one whole object with the items and the time of one refresh.
C28_FailedRefreshKeepsCache ==
    [][IsRequest /\ fn \in {"sheets", "coupons"} =>
          /\ authorizeThrew(refreshOf(SHEETS_CACHE)) =>
                /\ SHEETS_CACHE' = SHEETS_CACHE
                /\ resp'.XFallback \/ resp'.statusCode = 500
                /\ refreshOf(SHEETS_CACHE').calls # <<>>
          /\ SHEETS_CACHE' # SHEETS_CACHE =>
                /\ {"items", "ts"} \subseteq DOMAIN SHEETS_CACHE'[1]
                /\ SHEETS_CACHE'[1].ts = now
                /\ SHEETS_CACHE'[1].items = refreshOf(SHEETS_CACHE).cache[1].items]_vars

\* The reads of the sheets fail in the refresh this step's request makes
readsFail == upstream.fault = "fetch" /\ "authorize" \in Range(refreshOf(SHEETS_CACHE).calls)

\* C29: when the reads of the spreadsheet fail during a refresh, a
\* non-empty SHEETS_CACHE entry is not replaced by one without items, a
\* retained snapshot with items is not replaced by a payload without items,
\* and no entry is written that would be served for the TTL.
C29_FailedReadKeepsGoodData ==
    [][IsRequest /\ fn \in {"sheets", "coupons"} /\ readsFail =>
          /\ SHEETS_CACHE # <<>> /\ SHEETS_CACHE[1].items # <<>> =>
                SHEETS_CACHE'[1].items # <<>>
          /\ LAST_JSON # <<>> /\ LAST_JSON[1].items # <<>> =>
                LAST_JSON'[1].items # <<>>
          /\ SHEETS_CACHE' = SHEETS_CACHE]_vars

(***************************************************************************)
(* SpecPages: the loops over the pages of the coupon list, one request a   *)
(* step: the loop of the bg.ts handler and the loop of fetchBanggoodDeals  *)
(* (coupons.ts, second handler).  The page_total of each answer is the     *)
(* upstream's to choose: absent (0), fixed (1, 3, 9), or one more than the *)
(* page asked for.                                                         *)
(***************************************************************************)
\* How many page requests of one loop are followed.
MaxRequests == 7
PagesParams == {<<>>, <<"0">>, <<"1">>, <<"2">>, <<"5">>, <<"9">>, <<"x">>}
PageTotals(page) == {0, 1, 3, 9, page + 1}

\* Math.max(1, Math.min(PAGE_CAP, parseInt(qs.get("pages") || "3", 10)))
pageDepthOf(s) ==
    LET n == parseInt(IF s = <<>> THEN <<"3">> ELSE s)
    IN  IF n = {} THEN {} ELSE {Max(1, Min(PAGE_CAP, val(n)))}

LoopAt(pc, page, pages, requests) ==
    [pc |-> pc, page |-> page, pages |-> pages, requests |-> requests]

InitPages ==
    /\ call \in [which : {"bg"}, pages : PagesParams]
            \cup [which : {"coupons"}, pages : {<<>>}]
    /\ ret = LoopAt("loop", 1, 1, 0)
    /\ HttpIdle

\* One turn: the answer's page_total, or the page asked for, is the new pages
Turn(page_total) ==
    LoopAt("loop", ret.page + 1, IF page_total # 0 THEN page_total ELSE ret.page,
           ret.requests + 1)

\* bg.ts handler: while (page <= pages && page <= pageDepth)
BgPage ==
    /\ call.which = "bg" /\ ret.pc = "loop"
    /\ \E depth \in {pageDepthOf(call.pages)} :
          IF ret.page <= ret.pages /\ depth # {} /\ ret.page <= val(depth)
          THEN \E page_total \in PageTotals(ret.page) : ret' = Turn(page_total)
          ELSE ret' = [ret EXCEPT !.pc = "done"]
    /\ UNCHANGED <<call, httpVars>>

\* coupons.ts fetchBanggoodDeals: while (page <= pages)
CouponsPage ==
    /\ call.which = "coupons" /\ ret.pc = "loop"
    /\ ret.requests < MaxRequests
    /\ IF ret.page <= ret.pages
       THEN \E page_total \in PageTotals(ret.page) : ret' = Turn(page_total)
       ELSE ret' = [ret EXCEPT !.pc = "done"]
    /\ UNCHANGED <<call, httpVars>>

NextPages == BgPage \/ CouponsPage
SpecPages == InitPages /\ [][NextPages]_vars

\* C30: a loop over the coupon pages makes a bounded number of page
\* requests whatever page_total the upstream reports: the bg handler at most
\* min(pages, PAGE_CAP = 5), fetchBanggoodDeals at most a fixed maximum.
C30_PageRequestsBounded ==
    /\ ret.requests <= 5
    /\ call.which = "bg" =>
          \A n \in parseInt(IF call.pages = <<>> THEN <<"3">> ELSE call.pages) :
              n >= 1 => ret.requests <= Min(n, 5)

====
